---- MODULE Spec2Model ----
(***************************************************************************)
(* A model of the LFRic diagnostic meta data generator (meta_data_utils):  *)
(* the reader's pass over the *__meta_mod.*90 files, the non-spatial       *)
(* dimension registry, the JSON snapshot with its checksum and its reader, *)
(* and the rose-meta.conf writer.                                          *)
(*                                                                         *)
(* Each component has its own variables and its own specification; the    *)
(* variables of the other components stay at their initial values.         *)
(***************************************************************************)
EXTENDS Integers, Sequences, FiniteSets, TLC

VARIABLES
    \* ---- diag_meta_gen.run / FortranMetaDataReader.read_fortran_files ----
    meta_mod_files,   \* self.meta_mod_files: the sorted list of files found
    file_idx,         \* how many files the `for file_path in ...` loop has taken
    valid_meta_data,  \* self.valid_meta_data
    valid_files,      \* the local counter valid_files
    run_pc,           \* where run() is
    run_exc,          \* the exception that ended run(), "none" if none
    report,           \* which of the two closing log messages was written
    disk,             \* what run() has created under the suite directory
    failures,         \* history: the kinds of failure met on processed files
    \* ---- FortranMetaDataReader.find_nsd ----
    non_spatial_dims, \* self.non_spatial_dims: name -> definition with "fields"
    nsd_pc,           \* where find_nsd is
    nsd_len,          \* len(nsd_list), what parse_non_spatial_dimension returned
    nsd_pos,          \* how many of them the `for nsd in nsd_list` loop has taken
    nsd_cur,          \* nsd, the definition the loop took last
    nsd_field,        \* the Field find_nsd was called with
    nsd_exc,          \* the exception that ended find_nsd, "none" if none
    nsd_log,          \* LOGGER.error records written by the call
    nsd_last,         \* history: what the last pass of the loop did
    first_def,        \* history: the first definition registered per name
    \* ---- json_meta_data.write_json_meta / ConfigFiles.add_json_meta ----
    json_data,        \* data, the argument of write_json_meta
    json_disk,        \* data_for_disk as write_json_meta dumped it
    json_file,        \* the text of LFRic_meta_data.json, << >> if not written
    json_edited,      \* the file was modified by hand after it was written
    json_pc,          \* "start", "written", or "read" after add_json_meta
    json_exc,         \* what the last add_json_meta raised, "none" if nothing
    JSON_meta,        \* ConfigFiles.JSON_meta
    \* ---- two runs: find_fortran_files, create_rose_meta, write_json_meta ----
    rose_dir,         \* the files of the source directory, by index in AllFiles
    rose_meta_data,   \* meta_data, the document read from the files
    rose_pc,          \* per run: "start", "found", "conf", "done"
    rose_files,       \* per run: meta_mod_files of its reader
    rose_conf,        \* per run: the text of meta/<file_name>.conf
    rose_json,        \* per run: the text of LFRic_meta_data.json
    \* ---- file_validator.validate_names ----
    vn_args,          \* file_name, module_name, meta_type_name, group_name
    vn_pc,            \* "call", or "returned"
    vn_valid,         \* the value returned
    vn_log,           \* LOGGER.error records written by the call
    \* ---- field_validator.validate_field ----
    vf_field,         \* field, the argument: its attributes
    vf_accepts,       \* the standards whose validate_field accepts the field
    vf_pc,            \* "call", or "returned"
    vf_valid,         \* the value returned
    vf_log,           \* LOGGER.error records validate_field wrote
    \* ---- dimension_parser.translate_vertical_dimension ----
    vd_declaration,   \* dimension_declaration, the argument
    vd_pc,            \* "call", "returned", or "raised"
    vd_exc,           \* the exception raised, "none" if none
    vd_result,        \* parsed_definition as returned
    \* ---- FortranMetaDataReader.extract_field ----
    ef_params,        \* the Component_Spec of the definition, in walk order
    ef_i,             \* how many of them the loop has taken
    ef_field,         \* field, the Field being filled
    ef_dims,          \* self.non_spatial_dims
    ef_valid,         \* valid_field
    ef_log,           \* LOGGER records, in order
    ef_tried,         \* the parameters that entered the try block, by position
    ef_pc,            \* "loop", "returned" or "raised"
    ef_exc,           \* the exception that left extract_field, "none" if none
    \* ---- entities.Group ----
    gr_fields,        \* self.fields: unique_id -> Field, in insertion order
    gr_added,         \* the arguments of the add_field calls so far, in order
    gr_log,           \* LOGGER.error records add_field wrote
    \* ---- the record loop of read_fortran_files ----
    rl_records,       \* what extract_field returns for each Assignment_Stmt
    rl_i,             \* how many records the loop has taken
    rl_group,         \* group.fields
    rl_valid_meta_data,\* self.valid_meta_data
    rl_file_valid,    \* file_valid
    rl_valid_files,   \* valid_files
    rl_log,           \* LOGGER.error records of the loop and of add_field
    rl_pc,            \* "loop" or "done"
    \* ---- FortranMetaDataReader.extract_multi_line_statement ----
    ml_segments,      \* the literals of the statement, left to right, without quotes
    ml_pc,            \* "call" or "returned"
    ml_value,         \* value as returned
    \* ---- dimension_parser.parse_non_spatial_dimension ----
    pn_field,         \* field.unique_id
    pn_len,           \* the number of children of non_spatial_dimension
    pn_i,             \* how many children the loop has taken
    pn_cur,           \* nsd, the child taken last
    pn_definitions,   \* definitions
    pn_pc,            \* "loop", "returned" or "raised"
    pn_exc,           \* the exception raised, NoException if none
    \* ---- standards.cmip.CMIP.validate_field ----
    cm_field,         \* test_field: its unique_id, units and synonyms
    cm_pc,            \* "call" or "returned"
    cm_valid,         \* valid as returned
    cm_log,           \* LOGGER records, in order
    \* ---- rose_config_creator.add_non_spatial_dims_meta ----
    nm_dims,          \* non_spatial_dims_meta
    nm_pc,            \* "call", "returned" or "raised"
    nm_exc,           \* the exception raised, "none" if none
    nm_text,          \* rose_meta as returned
    \* ---- rose_picker: _extract_namelists over one configuration ----
    rp_config,        \* the section keys of the configuration, in the order written
    rp_keys,          \* node_keys: the matching keys, sorted
    rp_i,             \* how many of node_keys the loop has handled
    rp_listnames,     \* listnames
    rp_namelist_config,\* namelist_config: the namelists with their members, in order
    rp_pc,            \* "idle", "loop", "done" or "raised"
    rp_exc,           \* the message of the RosePickerException raised, or << >>
    \* ---- VertDimWidget.find_valid_dimensions for one widget ----
    vw_dims,          \* ConfigFiles.user_defined_vertical_dimensions, in iteration order
    vw_fields,        \* the fields of the widget's group in ConfigFiles.JSON_meta
    vw_metadata_id,   \* metadata["id"], as its pieces
    vw_required,      \* required_levels
    vw_k,             \* how many dimensions the loop has handled
    vw_ids,           \* valid_vertical_dimension_ids
    vw_names,         \* valid_vertical_dimension_names
    vw_pc,            \* "idle", "loop", "returned" or "raised"
    \* ---- get_gpl_utilities_root_dir: one search for the root ----
    gp_tree,          \* for the file system root and each directory down to the working directory, the sub-directories it has
    gp_dirs,          \* directories_in_root
    gp_current,       \* current_dir, as its depth below the file system root
    gp_counter,       \* counter
    gp_pc             \* "idle", "loop", "returned" or "raised"

runVars == <<meta_mod_files, file_idx, valid_meta_data, valid_files, run_pc,
             run_exc, report, disk, failures>>
nsdVars == <<non_spatial_dims, nsd_pc, nsd_len, nsd_pos, nsd_cur, nsd_field,
             nsd_exc, nsd_log, nsd_last, first_def>>
jsonVars == <<json_data, json_disk, json_file, json_edited, json_pc, json_exc,
              JSON_meta>>
roseVars == <<rose_dir, rose_meta_data, rose_pc, rose_files, rose_conf,
              rose_json>>
namesVars == <<vn_args, vn_pc, vn_valid, vn_log>>
fieldVars == <<vf_field, vf_accepts, vf_pc, vf_valid, vf_log>>
vertVars == <<vd_declaration, vd_pc, vd_exc, vd_result>>
extractVars == <<ef_params, ef_i, ef_field, ef_dims, ef_valid, ef_log,
                 ef_tried, ef_pc, ef_exc>>
groupVars == <<gr_fields, gr_added, gr_log>>
recordsVars == <<rl_records, rl_i, rl_group, rl_valid_meta_data,
                 rl_file_valid, rl_valid_files, rl_log, rl_pc>>
multiVars == <<ml_segments, ml_pc, ml_value>>
parseVars == <<pn_field, pn_len, pn_i, pn_cur, pn_definitions, pn_pc,
               pn_exc>>
cmipVars == <<cm_field, cm_pc, cm_valid, cm_log>>
nsdMetaVars == <<nm_dims, nm_pc, nm_exc, nm_text>>
pickerVars == <<rp_config, rp_keys, rp_i, rp_listnames, rp_namelist_config,
                rp_pc, rp_exc>>
widgetVars == <<vw_dims, vw_fields, vw_metadata_id, vw_required, vw_k, vw_ids,
                vw_names, vw_pc>>
gplVars == <<gp_tree, gp_dirs, gp_current, gp_counter, gp_pc>>
vars == <<runVars, nsdVars, jsonVars, roseVars, namesVars, fieldVars,
          vertVars, extractVars, groupVars, recordsVars, multiVars, parseVars,
          cmipVars, nsdMetaVars, pickerVars, widgetVars, gplVars>>

\* What an operation of one part leaves alone: the variables of the others.
otherThanRun == <<nsdVars, jsonVars, roseVars, namesVars, fieldVars, vertVars,
                  extractVars, groupVars, recordsVars, multiVars, parseVars,
                  cmipVars, nsdMetaVars, pickerVars, widgetVars, gplVars>>
otherThanNsd == <<runVars, jsonVars, roseVars, namesVars, fieldVars, vertVars,
                  extractVars, groupVars, recordsVars, multiVars, parseVars,
                  cmipVars, nsdMetaVars, pickerVars, widgetVars, gplVars>>
otherThanJson == <<runVars, nsdVars, roseVars, namesVars, fieldVars, vertVars,
                   extractVars, groupVars, recordsVars, multiVars, parseVars,
                   cmipVars, nsdMetaVars, pickerVars, widgetVars, gplVars>>
otherThanRose == <<runVars, nsdVars, jsonVars, namesVars, fieldVars, vertVars,
                   extractVars, groupVars, recordsVars, multiVars, parseVars,
                   cmipVars, nsdMetaVars, pickerVars, widgetVars, gplVars>>
otherThanNames == <<runVars, nsdVars, jsonVars, roseVars, fieldVars, vertVars,
                    extractVars, groupVars, recordsVars, multiVars, parseVars,
                    cmipVars, nsdMetaVars, pickerVars, widgetVars, gplVars>>
otherThanField == <<runVars, nsdVars, jsonVars, roseVars, namesVars, vertVars,
                    extractVars, groupVars, recordsVars, multiVars, parseVars,
                    cmipVars, nsdMetaVars, pickerVars, widgetVars, gplVars>>
otherThanVert == <<runVars, nsdVars, jsonVars, roseVars, namesVars, fieldVars,
                   extractVars, groupVars, recordsVars, multiVars, parseVars,
                   cmipVars, nsdMetaVars, pickerVars, widgetVars, gplVars>>
otherThanExtract == <<runVars, nsdVars, jsonVars, roseVars, namesVars,
                      fieldVars, vertVars, groupVars, recordsVars, multiVars,
                      parseVars, cmipVars, nsdMetaVars, pickerVars,
                      widgetVars, gplVars>>
otherThanGroup == <<runVars, nsdVars, jsonVars, roseVars, namesVars,
                    fieldVars, vertVars, extractVars, recordsVars, multiVars,
                    parseVars, cmipVars, nsdMetaVars, pickerVars, widgetVars,
                    gplVars>>
otherThanRecords == <<runVars, nsdVars, jsonVars, roseVars, namesVars,
                      fieldVars, vertVars, extractVars, groupVars, multiVars,
                      parseVars, cmipVars, nsdMetaVars, pickerVars,
                      widgetVars, gplVars>>
otherThanMulti == <<runVars, nsdVars, jsonVars, roseVars, namesVars,
                    fieldVars, vertVars, extractVars, groupVars, recordsVars,
                    parseVars, cmipVars, nsdMetaVars, pickerVars, widgetVars,
                    gplVars>>
otherThanParse == <<runVars, nsdVars, jsonVars, roseVars, namesVars,
                    fieldVars, vertVars, extractVars, groupVars, recordsVars,
                    multiVars, cmipVars, nsdMetaVars, pickerVars, widgetVars,
                    gplVars>>
otherThanCmip == <<runVars, nsdVars, jsonVars, roseVars, namesVars, fieldVars,
                   vertVars, extractVars, groupVars, recordsVars, multiVars,
                   parseVars, nsdMetaVars, pickerVars, widgetVars, gplVars>>
otherThanNsdMeta == <<runVars, nsdVars, jsonVars, roseVars, namesVars,
                      fieldVars, vertVars, extractVars, groupVars,
                      recordsVars, multiVars, parseVars, cmipVars, pickerVars,
                      widgetVars, gplVars>>
otherThanPicker == <<runVars, nsdVars, jsonVars, roseVars, namesVars,
                     fieldVars, vertVars, extractVars, groupVars, recordsVars,
                     multiVars, parseVars, cmipVars, nsdMetaVars, widgetVars,
                     gplVars>>
otherThanWidget == <<runVars, nsdVars, jsonVars, roseVars, namesVars,
                     fieldVars, vertVars, extractVars, groupVars, recordsVars,
                     multiVars, parseVars, cmipVars, nsdMetaVars, pickerVars,
                     gplVars>>
otherThanGpl == <<runVars, nsdVars, jsonVars, roseVars, namesVars, fieldVars,
                  vertVars, extractVars, groupVars, recordsVars, multiVars,
                  parseVars, cmipVars, nsdMetaVars, pickerVars, widgetVars>>

\* Python's None where a name is expected: a name has at least one segment
\* (the empty string is <<"">>).
NoName == <<>>

\* A search that found nothing.
NoMatch == [found |-> FALSE, section_name |-> "", group_name |-> <<>>]

(***************************************************************************)
(* Bounds.                                                                 *)
(***************************************************************************)
MaxFiles == 3
MaxNsdList == 2
MaxJsonItems == 2
MaxFields == 2
MaxArgs == 2

(***************************************************************************)
(* Names. A name is the sequence of its "__"-separated segments, so        *)
(* "s1__g1__meta_mod" is <<"s1", "g1", "meta_mod">>. Segments are          *)
(* non-empty and neither start nor end with an underscore.                 *)
(***************************************************************************)
Sections == {"s1", "s2"}
Groups == {"g1"}

\* The last index j >= 3 of a segment equal to suffix, 0 if there is none.
\* The section group of the patterns is lazy and the group group greedy, so
\* a search matches a name with such a segment, from its first segment on,
\* up to the last such segment.
SuffixAt(segs, suffix) ==
    LET js == {j \in 3..Len(segs) : segs[j] = suffix}
    IN IF js = {} THEN 0 ELSE CHOOSE j \in js : \A k \in js : k <= j

\* The result of PATTERN.search(name) for the three patterns that end in a
\* suffix: no match, or the section_name and group_name groups.
SearchSuffixed(segs, suffix) ==
    IF SuffixAt(segs, suffix) = 0 THEN NoMatch
    ELSE [found |-> TRUE, section_name |-> segs[1],
          group_name |-> SubSeq(segs, 2, SuffixAt(segs, suffix) - 1)]

\* file_validator.FILE_NAME_REGEX: "<section>__<group>__meta_mod.f90".
ValidatorFileSearch(file) ==
    IF file.ext = "f90" THEN SearchSuffixed(file.segs, "meta_mod") ELSE NoMatch

MODULE_NAME_Search(segs) == SearchSuffixed(segs, "meta_mod")

META_TYPE_NAME_Search(segs) == SearchSuffixed(segs, "meta_type")

\* GROUP_NAME_REGEX has no suffix: the group takes all that follows.
GROUP_NAME_Search(segs) ==
    IF Len(segs) < 2 THEN NoMatch
    ELSE [found |-> TRUE, section_name |-> segs[1],
          group_name |-> SubSeq(segs, 2, Len(segs))]

\* FortranMetaDataReader.FILE_NAME_REGEX: "<section>__<group>__meta_mod.*90".
\* Every file the glob finds ends in "90", whatever its extension.
ReaderFileSearch(file) == SearchSuffixed(file.segs, "meta_mod")

validate_names_errors_NoGroupCheck(file, module_name, meta_type_name, group_name) ==
    IF group_name = NoName THEN <<"There is no group name">>
    ELSE
      LET f == ValidatorFileSearch(file)
          m == MODULE_NAME_Search(module_name)
          t == META_TYPE_NAME_Search(meta_type_name)
          g == GROUP_NAME_Search(group_name)
          Err(cond, msg) == IF cond THEN <<msg>> ELSE <<>>
          shape == Err(~f.found, "Filename in path is not correct")
                \o Err(~m.found, "Module in file is not correct")
                \o Err(~t.found, "meta_type_name in file is not correct")
                \o Err(~g.found, "group_name in file is not correct")
      IN IF ~(f.found /\ m.found /\ t.found /\ g.found) THEN shape
         ELSE Err(m.section_name /= f.section_name,
                  "Section names do not match: module, file")
           \o Err(m.group_name /= f.group_name,
                  "Group names do not match: module, file")
           \o Err(m.group_name /= t.group_name, "Bad module name")
           \o Err(m.section_name /= t.section_name, "Bad meta_type name")

validate_names_errors_NoTypeSection(file, module_name, meta_type_name, group_name) ==
    IF group_name = NoName THEN <<"There is no group name">>
    ELSE
      LET f == ValidatorFileSearch(file)
          m == MODULE_NAME_Search(module_name)
          t == META_TYPE_NAME_Search(meta_type_name)
          g == GROUP_NAME_Search(group_name)
          Err(cond, msg) == IF cond THEN <<msg>> ELSE <<>>
          shape == Err(~f.found, "Filename in path is not correct")
                \o Err(~m.found, "Module in file is not correct")
                \o Err(~t.found, "meta_type_name in file is not correct")
                \o Err(~g.found, "group_name in file is not correct")
      IN IF ~(f.found /\ m.found /\ t.found /\ g.found) THEN shape
         ELSE Err(m.section_name /= f.section_name,
                  "Section names do not match: module, file")
           \o Err(m.group_name /= f.group_name,
                  "Group names do not match: module, file")
           \o Err(m.group_name /= t.group_name, "Bad module name")
           \o Err(g.section_name /= f.section_name,
                  "Section names do not match: group, file")
           \o Err(g.group_name /= f.group_name,
                  "Group names do not match: group, file")

\* The errors validate_names logs, in order; it returns valid = no errors.
validate_names_errors(file, module_name, meta_type_name, group_name) ==
    IF group_name = NoName THEN <<"There is no group name">>
    ELSE
      LET f == ValidatorFileSearch(file)
          m == MODULE_NAME_Search(module_name)
          t == META_TYPE_NAME_Search(meta_type_name)
          g == GROUP_NAME_Search(group_name)
          Err(cond, msg) == IF cond THEN <<msg>> ELSE <<>>
          shape == Err(~f.found, "Filename in path is not correct")
                \o Err(~m.found, "Module in file is not correct")
                \o Err(~t.found, "meta_type_name in file is not correct")
                \o Err(~g.found, "group_name in file is not correct")
      IN IF ~(f.found /\ m.found /\ t.found /\ g.found) THEN shape
         ELSE Err(m.section_name /= f.section_name,
                  "Section names do not match: module, file")
           \o Err(m.group_name /= f.group_name,
                  "Group names do not match: module, file")
           \o Err(m.group_name /= t.group_name, "Bad module name")
           \o Err(m.section_name /= t.section_name, "Bad meta_type name")
           \o Err(g.section_name /= f.section_name,
                  "Section names do not match: group, file")
           \o Err(g.group_name /= f.group_name,
                  "Group names do not match: group, file")

validate_names(file, module_name, meta_type_name, group_name) ==
    validate_names_errors(file, module_name, meta_type_name, group_name) = <<>>

(***************************************************************************)
(* The files the glob can find, in the order of their paths (sort() orders *)
(* them as strings: "F" < "f", "m" < "x", "g" < "m", "1" < "2").           *)
(***************************************************************************)
AllFiles ==
    << [path |-> "d/s1__g1__meta_mod.F90",
        segs |-> <<"s1", "g1", "meta_mod">>, ext |-> "F90"],
       [path |-> "d/s1__g1__meta_mod.f90",
        segs |-> <<"s1", "g1", "meta_mod">>, ext |-> "f90"],
       [path |-> "d/s1__g1__x__meta_mod.f90",
        segs |-> <<"s1", "g1", "x", "meta_mod">>, ext |-> "f90"],
       [path |-> "d/s1__meta_mod.f90",
        segs |-> <<"s1", "meta_mod">>, ext |-> "f90"],
       [path |-> "d/s2__g1__meta_mod.f90",
        segs |-> <<"s2", "g1", "meta_mod">>, ext |-> "f90"] >>

\* find_fortran_files: the files found, sorted.
SortedFileLists ==
    {[i \in 1..Len(pick) |-> AllFiles[pick[i]]] :
        pick \in {p \in UNION {[1..n -> 1..Len(AllFiles)] : n \in 0..MaxFiles} :
                    \A i \in 1..(Len(p) - 1) : p[i] < p[i + 1]}}

\* What the front end finds in one file: whether it parses, and the names
\* validate_naming reads from the parse tree.
ModuleNames == {<<s, g, "meta_mod">> : s \in Sections, g \in Groups}
               \cup {<<"s1", "g1">>}
MetaTypeNames == {<<s, g, "meta_type">> : s \in Sections, g \in Groups}
                 \cup {<<"s1", "g1", "meta_pe">>}
GroupNames == {<<s, g>> : s \in Sections, g \in Groups}
              \cup {<<"s1g1">>, NoName}
FileContents ==
    [parses : BOOLEAN, module_name : ModuleNames,
     meta_type_name : MetaTypeNames, group_name : GroupNames]

\* validate_naming: validate_names on the names of the parse tree.
validate_naming(file, c) ==
    validate_names(file, c.module_name, c.meta_type_name, c.group_name)


(***************************************************************************)
(* Python values and JSON text. A value is tagged with its type; a str is  *)
(* the sequence of the parts it was put together from; a dict is the       *)
(* sequence of its items in insertion order. JSON text is a sequence of    *)
(* tokens.                                                                 *)
(***************************************************************************)
PyStr(s) == [t |-> "str", s |-> <<s>>]
PyInt(n) == [t |-> "int", n |-> n]
PyNone == [t |-> "null"]
PyList(items) == [t |-> "list", items |-> items]
PyTuple(items) == [t |-> "tuple", items |-> items]
PyDict(items) == [t |-> "dict", items |-> items]
\* An object of a class, by the items of its __dict__.
PyObject(items) == [t |-> "obj", items |-> items]

Tok(k, s) == [k |-> k, s |-> s]
Punct(c) == Tok("p", <<c>>)
NewLine == Tok("nl", << >>)

\* The strings of the model, in the order of str comparison.
Alphabet == <<"", "1", "BILINEAR", "BOTTOM_ATMOSPHERIC_LEVEL", "G1",
              "POSITIVE_UP", "REAL", "S1", "STANDARD_TIMESTEP",
              "TOP_WET_LEVEL", "Title", "W3", "a", "axis_definition", "b",
              "bottom_arg", "checksum", "data_type", "description",
              "fields", "foo bar", "function_space", "g", "g1", "groups",
              "h", "height", "help", "item_title", "m", "meta_data",
              "name", "non_spatial_dimension", "non_spatial_dimensions",
              "null", "positive", "recommended_interpolation", "s", "s1",
              "s1__a", "s1__b", "s1__c", "sections",
              "standard_level_markers", "standard_name", "synonyms",
              "text", "time_step", "title", "top_arg", "trigger", "type",
              "unique_id", "units", "vertical_dimension", "x", "y", "z">>

StrCode(s) ==
    IF \E i \in DOMAIN Alphabet : Alphabet[i] = s
    THEN CHOOSE i \in DOMAIN Alphabet : Alphabet[i] = s
    ELSE 0

\* The JSON key of a dict key: a str as it is, an int by str().
KeyString(key) == IF key.t = "int" THEN <<ToString(key.n)>> ELSE key.s

\* a < b for two keys (sort_keys sorts the items by key).
KeyLess(a, b) == StrCode(KeyString(a)[1]) < StrCode(KeyString(b)[1])

\* sorted(items, key): insertion into a sorted sequence, from the left.
RECURSIVE SortItems(_)
SortItems(items) ==
    IF items = << >> THEN << >>
    ELSE LET rest == SortItems(Tail(items))
             x == Head(items)
             before == SelectSeq(rest, LAMBDA y : KeyLess(y[1], x[1]))
             after == SelectSeq(rest, LAMBDA y : ~KeyLess(y[1], x[1]))
         IN before \o <<x>> \o after

\* json.dumps(value, sort_keys=..., indent=...), with default=o.__dict__ for
\* objects: a tuple is written as a list, an object as its __dict__, a key
\* as a string. With an indent every item starts on a new line.
RECURSIVE json_dumps(_, _, _), DumpElems(_, _, _), DumpMembers(_, _, _)
json_dumps(v, sort_keys, indent) ==
    LET nl == IF indent THEN <<NewLine>> ELSE << >>
    IN CASE v.t = "str" -> <<Tok("s", v.s)>>
         [] v.t = "int" -> <<Tok("n", <<ToString(v.n)>>)>>
         [] v.t = "null" -> <<Tok("lit", <<"null">>)>>
         [] v.t \in {"list", "tuple"} ->
              IF v.items = << >> THEN <<Punct("["), Punct("]")>>
              ELSE <<Punct("[")>> \o nl
                   \o DumpElems(v.items, sort_keys, indent)
                   \o nl \o <<Punct("]")>>
         [] v.t \in {"dict", "obj"} ->
              IF v.items = << >> THEN <<Punct("{"), Punct("}")>>
              ELSE <<Punct("{")>> \o nl
                   \o DumpMembers(IF sort_keys THEN SortItems(v.items)
                                  ELSE v.items, sort_keys, indent)
                   \o nl \o <<Punct("}")>>

DumpElems(items, sort_keys, indent) ==
    IF Len(items) = 1 THEN json_dumps(items[1], sort_keys, indent)
    ELSE json_dumps(items[1], sort_keys, indent)
         \o <<Punct(",")>> \o (IF indent THEN <<NewLine>> ELSE << >>)
         \o DumpElems(Tail(items), sort_keys, indent)

DumpMembers(items, sort_keys, indent) ==
    LET member == <<Tok("s", KeyString(items[1][1])), Punct(":")>>
                  \o json_dumps(items[1][2], sort_keys, indent)
    IN IF Len(items) = 1 THEN member
       ELSE member \o <<Punct(",")>>
            \o (IF indent THEN <<NewLine>> ELSE << >>)
            \o DumpMembers(Tail(items), sort_keys, indent)

\* d[key] = value on a dict: a key that is there keeps its place.
DictSet(items, key, value) ==
    IF \E i \in DOMAIN items : items[i][1] = key
    THEN [i \in DOMAIN items |->
            IF items[i][1] = key THEN <<key, value>> ELSE items[i]]
    ELSE Append(items, <<key, value>>)

HasKey(d, k) == \E i \in DOMAIN d.items : d.items[i][1] = PyStr(k)

\* d[k]
Get(d, k) == d.items[CHOOSE i \in DOMAIN d.items : d.items[i][1] = PyStr(k)][2]

\* del d[k]
Del(d, k) == PyDict(SelectSeq(d.items, LAMBDA it : it[1] /= PyStr(k)))

\* The int a number token stands for.
IntOf(text) == CHOOSE n \in 0..9 : ToString(n) = text

\* json.loads: the value at token i and the index after it. White space
\* is skipped before parsing.
RECURSIVE ParseValue(_, _), ParseElems(_, _, _), ParseMembers(_, _, _)
ParseValue(toks, i) ==
    CASE toks[i].k = "s" -> [v |-> [t |-> "str", s |-> toks[i].s], n |-> i + 1]
      [] toks[i].k = "n" -> [v |-> PyInt(IntOf(toks[i].s[1])), n |-> i + 1]
      [] toks[i].k = "lit" -> [v |-> PyNone, n |-> i + 1]
      [] toks[i] = Punct("[") ->
           IF toks[i + 1] = Punct("]") THEN [v |-> PyList(<< >>), n |-> i + 2]
           ELSE ParseElems(toks, i + 1, << >>)
      [] toks[i] = Punct("{") ->
           IF toks[i + 1] = Punct("}") THEN [v |-> PyDict(<< >>), n |-> i + 2]
           ELSE ParseMembers(toks, i + 1, << >>)

ParseElems(toks, i, acc) ==
    LET e == ParseValue(toks, i)
    IN IF toks[e.n] = Punct(",")
       THEN ParseElems(toks, e.n + 1, Append(acc, e.v))
       ELSE [v |-> PyList(Append(acc, e.v)), n |-> e.n + 1]

ParseMembers(toks, i, acc) ==
    LET key == [t |-> "str", s |-> toks[i].s]
        e == ParseValue(toks, i + 2)
    IN IF toks[e.n] = Punct(",")
       THEN ParseMembers(toks, e.n + 1, DictSet(acc, key, e.v))
       ELSE [v |-> PyDict(DictSet(acc, key, e.v)), n |-> e.n + 1]

json_loads(text) ==
    ParseValue(SelectSeq(text, LAMBDA tk : tk.k /= "nl"), 1).v

\* The code of a token of the text: its kind and what it spells.
TokCode(tk) ==
    LET spelt == Alphabet \o <<"{", "}", "[", "]", ",", ":">>
        kind == CASE tk.k = "s" -> 1 [] tk.k = "n" -> 2
                  [] tk.k = "lit" -> 3 [] OTHER -> 4
    IN IF tk.s /= << >> /\ \E i \in DOMAIN spelt : spelt[i] = tk.s[1]
       THEN 4 * (CHOOSE i \in DOMAIN spelt : spelt[i] = tk.s[1]) + kind
       ELSE kind

\* hashlib.md5(text.encode('utf-8')).hexdigest(): a digest of the whole text,
\* token by token and in their order, as a decimal string. The digest of
\* text[lo..hi] comes with the weight of a text of that length, so that the
\* digests of two halves combine.
RECURSIVE Digest(_, _, _)
Digest(text, lo, hi) ==
    IF lo > hi THEN [h |-> 0, w |-> 1]
    ELSE IF lo = hi THEN [h |-> TokCode(text[lo]), w |-> 131]
    ELSE LET mid == (lo + hi) \div 2
             left == Digest(text, lo, mid)
             right == Digest(text, mid + 1, hi)
         IN [h |-> (left.h * right.w + right.h) % 46337,
             w |-> (left.w * right.w) % 46337]

md5_hexdigest(text) ==
    LET d == Digest(text, 1, Len(text))
    IN ToString((17 * d.w + d.h) % 46337)

\* 'md5: ' + hexdigest
Md5String(text) == [t |-> "str", s |-> <<"md5: ", md5_hexdigest(text)>>]

(***************************************************************************)
(* The non-spatial dimension registry before any registration.             *)
(***************************************************************************)
NsdIdle ==
    /\ non_spatial_dims = << >>
    /\ nsd_pc = "idle"
    /\ nsd_len = 0
    /\ nsd_pos = 0
    /\ nsd_cur = [name |-> ""]
    /\ nsd_field = [file_name |-> << >>, unique_id |-> "None"]
    /\ nsd_exc = "none"
    /\ nsd_log = << >>
    /\ nsd_last = "none"
    /\ first_def = << >>

\* No snapshot has been written and ConfigFiles.JSON_meta is None, as the
\* class defines it.
JsonIdle ==
    /\ json_data = PyNone
    /\ json_disk = PyNone
    /\ json_file = << >>
    /\ json_edited = FALSE
    /\ json_pc = "idle"
    /\ json_exc = "none"
    /\ JSON_meta = PyNone

\* validate_names has not been called.
NamesIdle ==
    /\ vn_args = << >>
    /\ vn_pc = "idle"
    /\ vn_valid = TRUE
    /\ vn_log = << >>

\* validate_field has not been called.
FieldIdle ==
    /\ vf_field = << >>
    /\ vf_accepts = {}
    /\ vf_pc = "idle"
    /\ vf_valid = TRUE
    /\ vf_log = << >>

\* translate_vertical_dimension has not been called.
VertIdle ==
    /\ vd_declaration = << >>
    /\ vd_pc = "idle"
    /\ vd_exc = "none"
    /\ vd_result = PyNone

\* extract_field has not been called.
ExtractIdle ==
    /\ ef_params = << >>
    /\ ef_i = 0
    /\ ef_field = << >>
    /\ ef_dims = << >>
    /\ ef_valid = TRUE
    /\ ef_log = << >>
    /\ ef_tried = << >>
    /\ ef_pc = "idle"
    /\ ef_exc = "none"

\* The Group has just been made and nothing was added to it.
GroupIdle ==
    /\ gr_fields = << >>
    /\ gr_added = << >>
    /\ gr_log = << >>

\* No file's records are being read.
RecordsIdle ==
    /\ rl_records = << >>
    /\ rl_i = 0
    /\ rl_group = << >>
    /\ rl_valid_meta_data = TRUE
    /\ rl_file_valid = TRUE
    /\ rl_valid_files = 0
    /\ rl_log = << >>
    /\ rl_pc = "idle"

\* extract_multi_line_statement has not been called.
MultiIdle ==
    /\ ml_segments = << >>
    /\ ml_pc = "idle"
    /\ ml_value = << >>

\* parse_non_spatial_dimension has not been called.
ParseIdle ==
    /\ pn_field = ""
    /\ pn_len = 0
    /\ pn_i = 0
    /\ pn_cur = << >>
    /\ pn_definitions = << >>
    /\ pn_pc = "idle"
    /\ pn_exc = [type |-> "none"]

\* CMIP.validate_field has not been called.
CmipIdle ==
    /\ cm_field = << >>
    /\ cm_pc = "idle"
    /\ cm_valid = TRUE
    /\ cm_log = << >>

\* add_non_spatial_dims_meta has not been called.
NsdMetaIdle ==
    /\ nm_dims = PyNone
    /\ nm_pc = "idle"
    /\ nm_exc = "none"
    /\ nm_text = << >>

\* No configuration is being picked.
PickerIdle ==
    /\ rp_config = << >>
    /\ rp_keys = << >>
    /\ rp_i = 0
    /\ rp_listnames = << >>
    /\ rp_namelist_config = << >>
    /\ rp_pc = "idle"
    /\ rp_exc = << >>

\* No widget is being built.
WidgetIdle ==
    /\ vw_dims = << >>
    /\ vw_fields = << >>
    /\ vw_metadata_id = << >>
    /\ vw_required = {}
    /\ vw_k = 0
    /\ vw_ids = << >>
    /\ vw_names = << >>
    /\ vw_pc = "idle"

\* No search for the root directory is under way.
GplIdle ==
    /\ gp_tree = << >>
    /\ gp_dirs = << >>
    /\ gp_current = 0
    /\ gp_counter = 0
    /\ gp_pc = "idle"

\* No run of the generator has started.
RoseIdle ==
    /\ rose_dir = {}
    /\ rose_meta_data = PyNone
    /\ rose_pc = << >>
    /\ rose_files = << >>
    /\ rose_conf = << >>
    /\ rose_json = << >>

\* run() has not been called.
RunIdle ==
    /\ meta_mod_files = << >>
    /\ file_idx = 0
    /\ valid_meta_data = TRUE
    /\ valid_files = 0
    /\ run_pc = "idle"
    /\ run_exc = "none"
    /\ report = "none"
    /\ disk = {}
    /\ failures = {}

\* All parts but one are as they are before their first call.
OthersIdle(part) ==
    /\ part = "run" \/ RunIdle
    /\ part = "nsd" \/ NsdIdle
    /\ part = "json" \/ JsonIdle
    /\ part = "rose" \/ RoseIdle
    /\ part = "names" \/ NamesIdle
    /\ part = "field" \/ FieldIdle
    /\ part = "vert" \/ VertIdle
    /\ part = "extract" \/ ExtractIdle
    /\ part = "group" \/ GroupIdle
    /\ part = "records" \/ RecordsIdle
    /\ part = "multi" \/ MultiIdle
    /\ part = "parse" \/ ParseIdle
    /\ part = "cmip" \/ CmipIdle
    /\ part = "nsdmeta" \/ NsdMetaIdle
    /\ part = "picker" \/ PickerIdle
    /\ part = "widget" \/ WidgetIdle
    /\ part = "gpl" \/ GplIdle

(***************************************************************************)
(* diag_meta_gen.run: it constructs the reader (find_fortran_files sorts   *)
(* the files), calls read_fortran_files and, when the meta data is valid,  *)
(* writes the output.                                                      *)
(***************************************************************************)
InitRun ==
    /\ meta_mod_files \in SortedFileLists
    /\ file_idx = 0
    /\ valid_meta_data = TRUE
    /\ valid_files = 0
    /\ run_pc = "read_fortran_files"
    /\ run_exc = "none"
    /\ report = "none"
    /\ disk = {}
    /\ failures = {}
    /\ OthersIdle("run")

\* The failures of one file that is visited: the naming and the file name.
NamingFailures(file, c) ==
    (IF validate_naming(file, c) THEN {} ELSE {"naming"})
    \cup (IF ReaderFileSearch(file).found THEN {} ELSE {"file name"})

\* A handler for FparserException that logs the error and leaves the flag.
ParseFailure_KeepsFlag ==
    /\ run_pc = "read_fortran_files"
    /\ file_idx < Len(meta_mod_files)
    /\ \E c \in FileContents : ~c.parses
    /\ file_idx' = file_idx + 1
    /\ failures' = failures \cup {"parse"}
    /\ UNCHANGED <<meta_mod_files, valid_meta_data, valid_files, run_pc,
                   run_exc, report, disk>>
    /\ UNCHANGED otherThanRun

\* One pass of the loop of read_fortran_files in which the front end raises
\* FparserException: the handler logs it and clears the flag, and the loop
\* goes on to the next file.
ParseFailure ==
    /\ run_pc = "read_fortran_files"
    /\ file_idx < Len(meta_mod_files)
    /\ \E c \in FileContents : ~c.parses
    /\ valid_meta_data' = FALSE
    /\ file_idx' = file_idx + 1
    /\ failures' = failures \cup {"parse"}
    /\ UNCHANGED <<meta_mod_files, valid_files, run_pc, run_exc, report, disk>>
    /\ UNCHANGED otherThanRun

\* One pass in which the file parses and its path does not match
\* FILE_NAME_REGEX: validate_naming has run, the error is logged, the flag is
\* cleared and `break` leaves the loop with the remaining files unread.
FileNameBreak ==
    /\ run_pc = "read_fortran_files"
    /\ file_idx < Len(meta_mod_files)
    /\ \E c \in FileContents :
         /\ c.parses
         /\ ~ReaderFileSearch(meta_mod_files[file_idx + 1]).found
         /\ failures' =
              failures \cup NamingFailures(meta_mod_files[file_idx + 1], c)
    /\ valid_meta_data' = FALSE
    /\ file_idx' = file_idx + 1
    /\ run_pc' = "after_loop"
    /\ UNCHANGED <<meta_mod_files, valid_files, run_exc, report, disk>>
    /\ UNCHANGED otherThanRun

\* One pass in which the file parses and its path matches: validate_naming
\* has run (clearing the flag when the naming is invalid), section_name,
\* group_name and file_name are bound, and the next statement reads
\* file_section_name, a name the function never binds: NameError, which the
\* handler for FparserException does not catch. It leaves read_fortran_files
\* and run(). No record of the file has been extracted, no Section or Group
\* made, and valid_files is not incremented.
UnboundNameAbort ==
    /\ run_pc = "read_fortran_files"
    /\ file_idx < Len(meta_mod_files)
    /\ \E c \in FileContents :
         /\ c.parses
         /\ ReaderFileSearch(meta_mod_files[file_idx + 1]).found
         /\ valid_meta_data' =
              (valid_meta_data /\ validate_naming(meta_mod_files[file_idx + 1], c))
         /\ failures' =
              failures \cup NamingFailures(meta_mod_files[file_idx + 1], c)
    /\ file_idx' = file_idx + 1
    /\ run_pc' = "raised"
    /\ run_exc' = "NameError"
    /\ UNCHANGED <<meta_mod_files, valid_files, report, disk>>
    /\ UNCHANGED otherThanRun

\* The loop is over (exhausted or broken): the closing message is logged and
\* (meta_data, self.valid_meta_data) is returned to run().
ReadReturn ==
    /\ \/ run_pc = "read_fortran_files" /\ file_idx = Len(meta_mod_files)
       \/ run_pc = "after_loop"
    /\ report' = IF valid_files = Len(meta_mod_files)
                 THEN "All files are valid" ELSE "files are invalid"
    /\ run_pc' = "returned"
    /\ UNCHANGED <<meta_mod_files, file_idx, valid_meta_data, valid_files,
                   run_exc, disk, failures>>
    /\ UNCHANGED otherThanRun

\* A run() that writes whatever read_fortran_files returned.
OutputGate_Always == TRUE

\* `if not valid` in run(): the branch that writes is the else branch.
OutputGate == valid_meta_data

\* The invalid branch: one log message.
RunInvalid ==
    /\ run_pc = "returned"
    /\ ~OutputGate
    /\ run_pc' = "done"
    /\ UNCHANGED <<meta_mod_files, file_idx, valid_meta_data, valid_files,
                   run_exc, report, disk, failures>>
    /\ UNCHANGED otherThanRun

\* The valid branch: os.makedirs creates the meta directory, then
\* create_rose_meta, which takes (meta_data, directory, file_name), is called
\* with two arguments: TypeError. write_file, add_rose_macro, add_rose_widget
\* and write_json_meta, which follow, are not reached.
RunValid ==
    /\ run_pc = "returned"
    /\ OutputGate
    /\ disk' = disk \cup {"meta/"}
    /\ run_pc' = "raised"
    /\ run_exc' = "TypeError"
    /\ UNCHANGED <<meta_mod_files, file_idx, valid_meta_data, valid_files,
                   report, failures>>
    /\ UNCHANGED otherThanRun

NextRun ==
    \/ ParseFailure
    \/ FileNameBreak
    \/ UnboundNameAbort
    \/ ReadReturn
    \/ RunInvalid
    \/ RunValid

SpecRun == InitRun /\ [][NextRun]_vars


(***************************************************************************)
(* Claims about run() and read_fortran_files.                              *)
(***************************************************************************)
\* read_fortran_files has returned to run().
ReadReturned == report /= "none"

\* read_fortran_files is over, by a return or by an exception.
ReadOver == run_pc \in {"returned", "done", "raised"}

\* C1: serialization is gated on validity. When read_fortran_files has
\* returned valid = False, run() has created nothing under the suite
\* directory (no directory, configuration file, macro, widget or snapshot);
\* whatever run() has created, it created after valid = True was returned.
C1_OutputGatedOnValid ==
    /\ (ReadReturned /\ ~valid_meta_data) => disk = {}
    /\ disk /= {} => (ReadReturned /\ valid_meta_data)

\* C1 witness: run() has ended on its invalid branch, after a failure, and
\* nothing was created.
C1_Witness ==
    /\ run_pc = "done"
    /\ ReadReturned
    /\ ~valid_meta_data
    /\ failures /= {}
    /\ disk = {}

\* C2, as claimed: once read_fortran_files is over and a file it processed
\* failed (front-end parse failure, naming validation, file name), it has
\* returned, and the flag it returned is False.
C2_FlagFalseOnAnyFailure ==
    (ReadOver /\ failures /= {}) => (ReadReturned /\ ~valid_meta_data)

\* C3, as claimed: a failure while processing one file never aborts the
\* run; when read_fortran_files returns after a failure, its loop has taken
\* every file of the sorted list.
C3_EveryFileProcessed ==
    (ReadReturned /\ failures /= {}) => file_idx = Len(meta_mod_files)


(***************************************************************************)
(* FortranMetaDataReader.find_nsd: the registry of non-spatial dimensions. *)
(* A definition is a Python dict, here a function from its keys; the       *)
(* registry is a dict in insertion order, here a sequence of items.        *)
(***************************************************************************)
\* The definitions parse_non_spatial_dimension can return: each has a name.
NsdDefinitions ==
    { [name |-> "foo", type |-> "axis_definition"],
      [name |-> "foo", type |-> "label_definition"],
      [name |-> "foo", type |-> "axis_definition", help |-> "h"],
      [name |-> "bar", type |-> "axis_definition"] }

\* The fields find_nsd is called with: the name of the file that declares
\* the field, by its "__"-separated parts, and the unique_id the record has
\* set so far ("None" when it has set none).
NsdFields ==
    [file_name : {<<"s1", "g1", "meta_mod.f90">>},
     unique_id : {"None", "s1__a", "s1__b"}]
    \cup [file_name : {<<"s1", "g1", "x", "meta_mod.f90">>},
          unique_id : {"s1__a"}]

\* `section, group, _ = field.file_name.split("__")` unpacks three parts.
SplitUnpacks(field) == Len(field.file_name) = 3

\* (section, group, field.unique_id)
FieldRef(field) == <<field.file_name[1], field.file_name[2], field.unique_id>>

\* dict.copy() followed by pop("fields"): the definition without "fields".
StoredDim(entry) == [k \in (DOMAIN entry) \ {"fields"} |-> entry[k]]

\* nsd with nsd["fields"] = fields
WithFields(nsd, fields) ==
    [k \in (DOMAIN nsd) \cup {"fields"} |->
        IF k = "fields" THEN fields ELSE nsd[k]]

\* name in self.non_spatial_dims
Registered(name) == \E i \in DOMAIN non_spatial_dims :
                        non_spatial_dims[i].key = name

KeyIndex(name) == CHOOSE i \in DOMAIN non_spatial_dims :
                        non_spatial_dims[i].key = name

\* self.non_spatial_dims[name]
Stored(name) == non_spatial_dims[KeyIndex(name)].value

InSeq(x, seq) == \E i \in DOMAIN seq : seq[i] = x

\* The loop of find_nsd has a definition to take.
InLoop == nsd_pc = "loop" /\ nsd_pos < nsd_len

\* The first definition registered under each name, kept as history.
NoteFirst(nsd) ==
    IF \E i \in DOMAIN first_def : first_def[i].name = nsd.name
    THEN first_def ELSE Append(first_def, nsd)

InitNsd ==
    /\ NsdIdle
    /\ OthersIdle("nsd")

\* extract_field calls find_nsd for a non_spatial_dimension attribute of a
\* record; parse_non_spatial_dimension has returned nsd_list. The
\* definitions of the list are drawn as the loop takes them.
FindNsdCall ==
    /\ nsd_pc \in {"idle", "returned", "raised"}
    /\ nsd_field' \in NsdFields
    /\ nsd_len' \in 1..MaxNsdList
    /\ nsd_pos' = 0
    /\ nsd_cur' = [name |-> ""]
    /\ nsd_pc' = "loop"
    /\ nsd_exc' = "none"
    /\ nsd_log' = << >>
    /\ nsd_last' = "none"
    /\ UNCHANGED <<non_spatial_dims, first_def>>
    /\ UNCHANGED otherThanNsd

\* The file name of the field does not split into three parts: the
\* unpacking raises ValueError before the registry is looked at.
SplitFails ==
    /\ InLoop
    /\ ~SplitUnpacks(nsd_field)
    /\ nsd_cur' \in NsdDefinitions
    /\ nsd_pos' = nsd_pos + 1
    /\ nsd_pc' = "raised"
    /\ nsd_exc' = "ValueError"
    /\ nsd_last' = "split"
    /\ UNCHANGED <<non_spatial_dims, nsd_len, nsd_field, nsd_log, first_def>>
    /\ UNCHANGED otherThanNsd

\* The name is not stored: the definition is stored under its name, with
\* the field as its only field.
RegisterNew ==
    /\ InLoop
    /\ SplitUnpacks(nsd_field)
    /\ \E nsd \in NsdDefinitions :
         /\ ~Registered(nsd.name)
         /\ non_spatial_dims' =
              Append(non_spatial_dims,
                     [key |-> nsd.name,
                      value |-> WithFields(nsd, <<FieldRef(nsd_field)>>)])
         /\ nsd_cur' = nsd
         /\ first_def' = NoteFirst(nsd)
    /\ nsd_pos' = nsd_pos + 1
    /\ nsd_last' = "new"
    /\ UNCHANGED <<nsd_pc, nsd_len, nsd_field, nsd_exc, nsd_log>>
    /\ UNCHANGED otherThanNsd

\* A registry that adds the field without looking whether it is there.
AppendIfAbsent_Always(fields, ref) == Append(fields, ref)

\* `if ref not in fields: fields.append(ref)`
AppendIfAbsent(fields, ref) ==
    IF InSeq(ref, fields) THEN fields ELSE Append(fields, ref)

\* The name is stored and the definition equals the stored one: the field
\* is added to the fields of the stored dimension unless it is there.
RegisterSame ==
    /\ InLoop
    /\ SplitUnpacks(nsd_field)
    /\ \E nsd \in NsdDefinitions :
         /\ Registered(nsd.name)
         /\ nsd = StoredDim(Stored(nsd.name))
         /\ non_spatial_dims' =
              [non_spatial_dims EXCEPT ![KeyIndex(nsd.name)].value =
                 WithFields(StoredDim(@),
                            AppendIfAbsent(@.fields, FieldRef(nsd_field)))]
         /\ nsd_cur' = nsd
         /\ first_def' = NoteFirst(nsd)
    /\ nsd_pos' = nsd_pos + 1
    /\ nsd_last' = "same"
    /\ UNCHANGED <<nsd_pc, nsd_len, nsd_field, nsd_exc, nsd_log>>
    /\ UNCHANGED otherThanNsd

\* A log that names only the first field of the stored dimension.
ConflictErrors_FirstOnly(nsd, field, entry) ==
    << [nsd_name |-> nsd.name, field |-> field.unique_id,
        stored_name |-> entry.name, stored_field |-> entry.fields[1][3]] >>

\* One error per field of the stored dimension, in their order: the new
\* dimension's name, the registering field's id, the stored dimension's name
\* and the id of the stored field.
ConflictErrors(nsd, field, entry) ==
    [i \in 1..Len(entry.fields) |->
        [nsd_name |-> nsd.name, field |-> field.unique_id,
         stored_name |-> entry.name, stored_field |-> entry.fields[i][3]]]

\* A conflict that lets the new definition replace the stored one.
RegisterConflict_Overwrites ==
    /\ InLoop
    /\ SplitUnpacks(nsd_field)
    /\ \E nsd \in NsdDefinitions :
         /\ Registered(nsd.name)
         /\ nsd /= StoredDim(Stored(nsd.name))
         /\ nsd_log' = nsd_log \o ConflictErrors(nsd, nsd_field,
                                                 Stored(nsd.name))
         /\ non_spatial_dims' =
              [non_spatial_dims EXCEPT ![KeyIndex(nsd.name)].value =
                 WithFields(nsd, <<FieldRef(nsd_field)>>)]
         /\ nsd_cur' = nsd
         /\ first_def' = NoteFirst(nsd)
    /\ nsd_pos' = nsd_pos + 1
    /\ nsd_pc' = "raised"
    /\ nsd_exc' = "Exception"
    /\ nsd_last' = "conflict"
    /\ UNCHANGED <<nsd_len, nsd_field>>
    /\ UNCHANGED otherThanNsd

\* The name is stored and the definition differs from the stored one: the
\* errors are logged and an Exception is raised; the registry is not
\* touched, and the rest of nsd_list is not looked at.
RegisterConflict ==
    /\ InLoop
    /\ SplitUnpacks(nsd_field)
    /\ \E nsd \in NsdDefinitions :
         /\ Registered(nsd.name)
         /\ nsd /= StoredDim(Stored(nsd.name))
         /\ nsd_log' = nsd_log \o ConflictErrors(nsd, nsd_field,
                                                 Stored(nsd.name))
         /\ nsd_cur' = nsd
         /\ first_def' = NoteFirst(nsd)
    /\ nsd_pos' = nsd_pos + 1
    /\ nsd_pc' = "raised"
    /\ nsd_exc' = "Exception"
    /\ nsd_last' = "conflict"
    /\ UNCHANGED <<non_spatial_dims, nsd_len, nsd_field>>
    /\ UNCHANGED otherThanNsd

\* The loop has taken every definition: find_nsd returns.
FindNsdReturn ==
    /\ nsd_pc = "loop"
    /\ nsd_pos = nsd_len
    /\ nsd_pc' = "returned"
    /\ UNCHANGED <<non_spatial_dims, nsd_len, nsd_pos, nsd_cur, nsd_field,
                   nsd_exc, nsd_log, nsd_last, first_def>>
    /\ UNCHANGED otherThanNsd

NextNsd ==
    \/ FindNsdCall
    \/ SplitFails
    \/ RegisterNew
    \/ RegisterSame
    \/ RegisterConflict
    \/ FindNsdReturn

SpecNsd == InitNsd /\ [][NextNsd]_vars


(***************************************************************************)
(* Claims about find_nsd.                                                  *)
(***************************************************************************)
\* A step in which the loop of find_nsd takes a definition, nsd_cur', for a
\* field that has a (section, group, field_id).
Registers == /\ nsd_pc = "loop"
             /\ nsd_pos' = nsd_pos + 1
             /\ SplitUnpacks(nsd_field)

\* ... whose name is stored, with the same definition or another one.
RegistersSame == /\ Registers
                 /\ Registered(nsd_cur'.name)
                 /\ nsd_cur' = StoredDim(Stored(nsd_cur'.name))

RegistersOther == /\ Registers
                  /\ Registered(nsd_cur'.name)
                  /\ nsd_cur' /= StoredDim(Stored(nsd_cur'.name))

Occurrences(x, seq) == Cardinality({k \in DOMAIN seq : seq[k] = x})

C6_FirstSeenDefinitionWins ==
    /\ [](\A i \in DOMAIN non_spatial_dims :
            \E k \in DOMAIN first_def :
               /\ first_def[k].name = non_spatial_dims[i].key
               /\ StoredDim(non_spatial_dims[i].value) = first_def[k])
    /\ [][RegistersOther => non_spatial_dims' = non_spatial_dims]_vars

\* C6 witness: two dimensions are stored, each with two or more fields, and a
\* conflicting definition has just been refused for one of them.
C6_Witness ==
    /\ nsd_last = "conflict"
    /\ Len(non_spatial_dims) = 2
    /\ \A i \in DOMAIN non_spatial_dims :
          Len(non_spatial_dims[i].value.fields) >= 2
    /\ StoredDim(Stored(nsd_cur.name)) /= nsd_cur


(***************************************************************************)
(* json_meta_data.write_json_meta writes the snapshot LFRic_meta_data.json *)
(* and ConfigFiles.add_json_meta of the widget reads it back.              *)
(***************************************************************************)
JsonKeys == {PyStr("b"), PyStr("a"), PyInt(1)}

\* What a key of the data holds: a str, None, a tuple as find_nsd stores
\* for a field, an object as Section or Group, a dict.
JsonLeaves ==
    {PyStr("x"), PyNone,
     PyTuple(<<PyStr("s"), PyStr("g"), PyNone>>),
     PyObject(<< <<PyStr("name"), PyStr("x")>> >>),
     PyDict(<< <<PyStr("z"), PyStr("x")>>, <<PyStr("y"), PyInt(1)>> >>)}

JsonItems(n) ==
    {items \in [1..n -> JsonKeys \X JsonLeaves] :
        \A i, j \in 1..n : i /= j => items[i][1] /= items[j][1]}

JsonDocs == {PyDict(items) : items \in UNION {JsonItems(n) : n \in 0..MaxJsonItems}}

\* create_md5_checksum of the widget: 'md5: ' and the md5 of the object
\* dumped with sorted keys.
create_md5_checksum(obj) == Md5String(json_dumps(obj, TRUE, FALSE))

set_checksum_Unsorted(meta_data) ==
    PyDict(DictSet(meta_data.items, PyStr("checksum"),
                   Md5String(json_dumps(meta_data, FALSE, FALSE))))

set_checksum_PayloadOnly(meta_data) ==
    PyDict(DictSet(meta_data.items, PyStr("checksum"),
                   Md5String(json_dumps(Get(meta_data, "meta_data"),
                                        TRUE, FALSE))))

\* set_checksum: the md5 of the whole of meta_data, dumped with sorted keys,
\* is stored in it under 'checksum'.
set_checksum(meta_data) ==
    PyDict(DictSet(meta_data.items, PyStr("checksum"),
                   Md5String(json_dumps(meta_data, TRUE, FALSE))))

\* data_for_disk of write_json_meta: the data is dumped and loaded again,
\* put under 'meta_data', and the checksum is set on that.
data_for_disk(data) ==
    set_checksum(PyDict(<< <<PyStr("meta_data"),
                             json_loads(json_dumps(data, FALSE, TRUE))>> >>))

InitJson ==
    /\ OthersIdle("json")
    /\ json_data \in JsonDocs
    /\ json_disk = PyNone
    /\ json_file = << >>
    /\ json_edited = FALSE
    /\ json_pc = "start"
    /\ json_exc = "none"
    /\ JSON_meta = PyNone

\* write_json_meta(data, path): json.dump with indent=4 and a line
\* separator after it.
WriteJsonMeta ==
    /\ json_pc = "start"
    /\ json_disk' = data_for_disk(json_data)
    /\ json_file' = json_dumps(json_disk', FALSE, TRUE) \o <<NewLine>>
    /\ json_pc' = "written"
    /\ UNCHANGED <<json_data, json_edited, json_exc, JSON_meta>>
    /\ UNCHANGED otherThanJson

\* What a hand can make of the file: the checksum removed or replaced, the
\* payload replaced, the two keys written in the other order.
HandEdits(file_data) ==
    {Del(file_data, "checksum"),
     PyDict(DictSet(file_data.items, PyStr("checksum"), Md5String(<< >>))),
     PyDict(DictSet(file_data.items, PyStr("meta_data"), PyDict(<< >>))),
     PyDict(DictSet(file_data.items, PyStr("meta_data"),
                    PyDict(<< <<PyStr("a"), PyStr("x")>> >>))),
     PyDict(SortItems(file_data.items))} \ {file_data}

\* The file is modified between the writer and a reader.
EditByHand ==
    /\ json_pc \in {"written", "read"}
    /\ ~json_edited
    /\ \E edited \in HandEdits(json_loads(json_file)) :
          json_file' = json_dumps(edited, FALSE, TRUE) \o <<NewLine>>
    /\ json_edited' = TRUE
    /\ UNCHANGED <<json_data, json_disk, json_pc, json_exc, JSON_meta>>
    /\ UNCHANGED otherThanJson

AddJsonMeta_AssignsFirst ==
    /\ json_pc \in {"written", "read"}
    /\ LET file_data == json_loads(json_file)
       IN IF ~HasKey(file_data, "checksum")
          THEN /\ json_exc' = "KeyError"
               /\ JSON_meta' = file_data
          ELSE LET immutable_metadata == Del(file_data, "checksum")
                   checksum == create_md5_checksum(immutable_metadata)
               IN /\ JSON_meta' = immutable_metadata
                  /\ json_exc' = IF checksum /= Get(file_data, "checksum")
                                 THEN "RuntimeError" ELSE "none"
    /\ json_pc' = "read"
    /\ UNCHANGED <<json_data, json_disk, json_file, json_edited>>
    /\ UNCHANGED otherThanJson

\* ConfigFiles.add_json_meta(path): KeyError without a checksum,
\* RuntimeError when the checksum of the rest is not the one in the file,
\* and only after both checks the assignment to JSON_meta.
AddJsonMeta ==
    /\ json_pc \in {"written", "read"}
    /\ LET file_data == json_loads(json_file)
       IN IF ~HasKey(file_data, "checksum")
          THEN /\ json_exc' = "KeyError"
               /\ UNCHANGED JSON_meta
          ELSE LET immutable_metadata == Del(file_data, "checksum")
                   checksum == create_md5_checksum(immutable_metadata)
               IN IF checksum /= Get(file_data, "checksum")
                  THEN /\ json_exc' = "RuntimeError"
                       /\ UNCHANGED JSON_meta
                  ELSE /\ json_exc' = "none"
                       /\ JSON_meta' = immutable_metadata
    /\ json_pc' = "read"
    /\ UNCHANGED <<json_data, json_disk, json_file, json_edited>>
    /\ UNCHANGED otherThanJson

NextJson == WriteJsonMeta \/ EditByHand \/ AddJsonMeta

SpecJson == InitJson /\ [][NextJson]_vars

\* The snapshot as it is on disk.
OnDisk == json_loads(json_file)

\* C7: a snapshot written by the writer and not modified since is accepted
\* by the reader: the checksum in the file is the one the reader computes
\* from the rest of the file, add_json_meta raises nothing, and JSON_meta is
\* then what the writer wrote, without the checksum.
C7_WrittenSnapshotIsAccepted ==
    /\ (json_pc \in {"written", "read"} /\ ~json_edited) =>
          /\ HasKey(OnDisk, "checksum")
          /\ Get(OnDisk, "checksum")
                = create_md5_checksum(Del(OnDisk, "checksum"))
    /\ (json_pc = "read" /\ ~json_edited) =>
          /\ json_exc = "none"
          /\ JSON_meta = Del(json_disk, "checksum")

\* The reader has taken an unmodified snapshot of data whose items the
\* writer had to convert and whose keys are not in sorted order.
C7_Witness ==
    /\ json_pc = "read"
    /\ ~json_edited
    /\ JSON_meta /= PyNone
    /\ Len(json_data.items) = 2
    /\ json_data.items[1][1] = PyStr("b")
    /\ Get(JSON_meta, "meta_data") /= json_data

\* C8: a call of add_json_meta on a file without a checksum raises KeyError,
\* one on a file whose checksum is not the checksum of the rest raises
\* RuntimeError, and in both cases JSON_meta keeps the value it had.
C8_RejectedSnapshotLeavesJsonMeta ==
    [][(json_pc' = "read" /\ json_file' = json_file) =>
          /\ ~HasKey(OnDisk, "checksum") =>
                (json_exc' = "KeyError" /\ JSON_meta' = JSON_meta)
          /\ (/\ HasKey(OnDisk, "checksum")
              /\ Get(OnDisk, "checksum")
                    /= create_md5_checksum(Del(OnDisk, "checksum"))) =>
                (json_exc' = "RuntimeError" /\ JSON_meta' = JSON_meta)]_vars

\* A snapshot was loaded, then modified, and the next call was refused with
\* RuntimeError while JSON_meta still holds what was loaded.
C8_Witness ==
    /\ json_pc = "read"
    /\ json_edited
    /\ json_exc = "RuntimeError"
    /\ JSON_meta = Del(json_disk, "checksum")

\* C9 as stated: the checksum of a written snapshot is 'md5: ' and the md5
\* of the key-sorted serialisation of the meta_data payload.
C9_ChecksumOverPayload ==
    (json_pc \in {"written", "read"} /\ ~json_edited) =>
        Get(OnDisk, "checksum")
            = Md5String(json_dumps(Get(OnDisk, "meta_data"), TRUE, FALSE))

\* C9: the checksum of a written snapshot is 'md5: ' and the md5 of the
\* key-sorted serialisation of the object {"meta_data": payload}, the whole
\* of the document but for the checksum.
C9_ChecksumOverWrapper ==
    (json_pc \in {"written", "read"} /\ ~json_edited) =>
        Get(OnDisk, "checksum")
            = Md5String(json_dumps(
                  PyDict(<< <<PyStr("meta_data"), Get(OnDisk, "meta_data")>> >>),
                  TRUE, FALSE))

\* A snapshot with a payload of two items has been written.
C9_Witness ==
    /\ json_pc = "written"
    /\ ~json_edited
    /\ Len(Get(OnDisk, "meta_data").items) = 2
    /\ Get(OnDisk, "checksum").s[1] = "md5: "


(***************************************************************************)
(* Two runs of the generator over the same input: find_fortran_files,      *)
(* then create_rose_meta and write_json_meta on the document read.         *)
(* create_rose_meta is called with the three arguments of its signature.   *)
(***************************************************************************)
Runs == {1, 2}

\* The names of levels_enum_mod.f90, as read_enum returns them.
LevelNames == <<"BOTTOM_ATMOSPHERIC_LEVEL", "TOP_WET_LEVEL">>

FieldIds == <<"s1__a", "s1__b", "s1__c">>

Range(seq) == {seq[i] : i \in DOMAIN seq}

\* The orders in which the elements of a set can come.
SetOrders(S) ==
    {q \in [1..Cardinality(S) -> S] :
        \A i, j \in 1..Cardinality(S) : i /= j => q[i] /= q[j]}

K(key, value) == <<PyStr(key), value>>

\* What translate_vertical_dimension returns for a model dimension and for a
\* dimension without levels, and the value of a field without a dimension.
VertDims ==
    {PyNone,
     PyDict(<<K("units", PyStr("m")), K("positive", PyStr("POSITIVE_UP")),
              K("standard_name", PyStr("height"))>>)}
    \cup {PyDict(<<K("top_arg", PyStr(top)), K("bottom_arg", PyStr(bottom)),
                   K("units", PyStr("m")), K("positive", PyStr("POSITIVE_UP")),
                   K("standard_name", PyStr("height"))>>) :
            top \in Range(LevelNames), bottom \in Range(LevelNames)}

\* A non-spatial dimension as find_nsd stores it, without a definition.
FooDimension ==
    PyDict(<<K("name", PyStr("foo bar")), K("type", PyStr("axis_definition")),
             K("help", PyStr("h")),
             K("fields", PyList(<<PyTuple(<<PyStr("s1"), PyStr("g1"),
                                             PyStr("s1__a")>>)>>))>>)

NsdRegistries == {PyDict(<< >>), PyDict(<<K("foo bar", FooDimension)>>)}

\* The Field object of the i-th record of the file.
RoseField(i, vertical_dimension, registry) ==
    PyObject(<<K("unique_id", PyStr(FieldIds[i])),
               K("item_title", PyStr("Title")),
               K("trigger", PyStr("")),
               K("units", PyStr("m")),
               K("function_space", PyStr("W3")),
               K("data_type", PyStr("REAL")),
               K("time_step", PyStr("STANDARD_TIMESTEP")),
               K("recommended_interpolation", PyStr("BILINEAR")),
               K("vertical_dimension", vertical_dimension),
               K("synonyms", PyDict(<< >>)),
               K("non_spatial_dimension",
                 IF i = 1 THEN registry ELSE PyDict(<< >>)),
               K("description", PyStr("text"))>>)

\* The dict read_fortran_files returns: one section with one group.
RoseDocument(vds, registry) ==
    LET fields == PyDict([i \in 1..Len(vds) |->
                            <<PyStr(FieldIds[i]),
                              RoseField(i, vds[i], registry)>>])
        group == PyObject(<<K("name", PyStr("g1")), K("title", PyStr("G1")),
                            K("fields", fields)>>)
        section == PyObject(<<K("name", PyStr("s1")), K("title", PyStr("S1")),
                              K("groups", PyDict(<<K("g1", group)>>))>>)
    IN PyDict(<<K("sections", PyDict(<<K("s1", section)>>)),
                K("standard_level_markers",
                  PyList([i \in 1..Len(LevelNames) |-> PyStr(LevelNames[i])])),
                K("non_spatial_dimensions", registry)>>)

\* The same with one field, and a second group that has no field.
RoseDocumentTwoGroups(vd, registry) ==
    LET one == RoseDocument(<<vd>>, registry)
        section == Get(Get(one, "sections"), "s1")
        g2 == PyObject(<<K("name", PyStr("g2")), K("title", PyStr("G2")),
                         K("fields", PyDict(<< >>))>>)
        s1 == PyObject(<<K("name", PyStr("s1")), K("title", PyStr("S1")),
                         K("groups",
                           PyDict(Get(section, "groups").items
                                  \o <<K("g2", g2)>>))>>)
    IN PyDict(<<K("sections", PyDict(<<K("s1", s1)>>)),
                one.items[2], one.items[3]>>)

RoseDocs ==
    {RoseDocument(vds, registry) :
        vds \in UNION {[1..n -> VertDims] : n \in 1..MaxFields},
        registry \in NsdRegistries}
    \cup {RoseDocumentTwoGroups(vd, registry) :
            vd \in VertDims, registry \in NsdRegistries}

\* The directory of the runs, by the indexes of its files in AllFiles.
RoseDirs == {{1, 2, 5}}


\* The values of a dict, in the order of its items.
Values(d) == [i \in 1..Len(d.items) |-> d.items[i][2]]

\* Texts put one after the other; a text is the sequence of its pieces.
RECURSIVE Flatten(_)
Flatten(texts) ==
    IF texts = << >> THEN << >> ELSE Head(texts) \o Flatten(Tail(texts))

\* sep.join(texts)
RECURSIVE Join(_, _)
Join(texts, sep) ==
    IF texts = << >> THEN << >>
    ELSE IF Len(texts) = 1 THEN Head(texts)
    ELSE Head(texts) \o <<sep>> \o Join(Tail(texts), sep)

\* The truth value of an object in a condition.
Truthy(v) ==
    /\ v.t /= "null"
    /\ v.t \in {"dict", "list"} => v.items /= << >>
    /\ v.t = "str" => v.s /= <<"">>

\* The iteration of a set of str: the order is that of the hash table, and
\* the hashes of str are salted for each process. The seed of a process is
\* given by the order it puts the level names in.
set_iter(S, seed) == SelectSeq(seed, LAMBDA x : x \in S)

\* model_levels of a group: the top_arg and bottom_arg of its fields.
model_levels(group) ==
    LET fields == Values(Get(group, "fields"))
        args(field) ==
            LET vd == Get(field, "vertical_dimension")
            IN IF Truthy(vd)
               THEN (IF HasKey(vd, "top_arg")
                     THEN {Get(vd, "top_arg").s[1]} ELSE {})
                    \cup (IF HasKey(vd, "bottom_arg")
                          THEN {Get(vd, "bottom_arg").s[1]} ELSE {})
               ELSE {}
    IN UNION {args(fields[i]) : i \in DOMAIN fields}

\* The blocks of one field in create_rose_meta. wrap() leaves a description
\* as short as these in one line.
FieldBlocks(section, group, field) ==
    LET sname == Get(section, "name").s
        gname == Get(group, "name").s
        uid == Get(field, "unique_id").s
        vd == Get(field, "vertical_dimension")
        synonyms == Get(field, "synonyms")
        nsd == Get(field, "non_spatial_dimension")
        renamed(key) == IF key = <<"top_arg">> THEN <<"top_level">>
                        ELSE IF key = <<"bottom_arg">> THEN <<"bottom_level">>
                        ELSE key
    IN <<"\n[field_config:">> \o sname \o <<":">> \o gname \o <<"=">> \o uid
       \o <<"]\ntype=boolean\ntitle=Enable ">> \o Get(field, "item_title").s
       \o <<"\ntrigger=field_config:">> \o sname \o <<":">> \o gname
       \o <<"=">> \o uid \o Get(field, "trigger").s
       \o <<"\nhelp=Unit of Measure: ">> \o Get(field, "units").s
       \o <<"\n    =Function Space: ">> \o Get(field, "function_space").s
       \o <<"\n    =Data type: ">> \o Get(field, "data_type").s
       \o <<"\n    =Time step: ">> \o Get(field, "time_step").s
       \o <<"\n    =Interpolation: ">>
       \o Get(field, "recommended_interpolation").s \o <<"\n">>
       \o (IF Truthy(vd)
           THEN <<"    =vertical_dimension:\n">>
                \o Flatten([i \in 1..Len(vd.items) |->
                      <<"       =">> \o renamed(vd.items[i][1].s) \o <<": ">>
                      \o vd.items[i][2].s \o <<"\n">>])
           ELSE << >>)
       \o (IF Truthy(synonyms)
           THEN <<"    =Synonyms:\n">>
                \o Flatten([i \in 1..Len(synonyms.items) |->
                      Flatten([j \in 1..Len(synonyms.items[i][2].items) |->
                         <<"    =    ">> \o synonyms.items[i][1].s \o <<": ">>
                         \o synonyms.items[i][2].items[j].s \o <<"\n">>])])
           ELSE << >>)
       \o (IF Truthy(nsd)
           THEN <<"    =Required non-spatial dimensions:\n">>
                \o Flatten([i \in 1..Len(nsd.items) |->
                      <<"    =    ">> \o Get(nsd.items[i][2], "name").s])
           ELSE << >>)
       \o <<"\ndescription=">> \o Get(field, "description").s
       \o <<"\n           =For more information on ">>
       \o Get(field, "item_title").s \o <<", see the help text\n">>
       \o <<"\n[field_config:">> \o sname \o <<":">> \o gname \o <<"=">> \o uid
       \o <<"__checksum]\ntype=boolean\ntitle=Enable Checksum for ">>
       \o Get(field, "item_title").s \o <<"\n">>

\* A writer that gives the widget block only to a group with model levels.
GroupBlocks_WhenLevels(section, group, seed) ==
    LET sname == Get(section, "name").s
        gname == Get(group, "name").s
        levels == set_iter(model_levels(group), seed)
        fields == Values(Get(group, "fields"))
    IN <<"\n[field_config:">> \o sname \o <<":">> \o gname
       \o <<"]\ntitle=">> \o Get(group, "title").s
       \o <<"\n[field_config:">> \o sname \o <<":">> \o gname
       \o <<"=model_levels_for_group]\ntitle=Model Levels used by this group\ndescription=Vertical dimensions must define these levels to be valid\nvalues=\n">>
       \o Flatten([i \in 1..Len(levels) |->
                     <<"            ", levels[i], "\n">>])
       \o <<"\nsort-key=01\ncompulsory=true\n">>
       \o (IF levels /= << >>
           THEN <<"\n[field_config:">> \o sname \o <<":">> \o gname
                \o <<"=vertical_dimension_for_group]\ntitle=Vertical dimension used by this group\ndescription=If you have edited the vertical dimensions please restart the GUI\n            to pick up the changes to the rose-app.conf file\nwidget[rose-config-edit]=vertical_dimension_choice.VertDimWidget\nsort-key=02\ncompulsory=true\n">>
           ELSE << >>)
       \o Flatten([i \in 1..Len(fields) |->
                     FieldBlocks(section, group, fields[i])])

\* The blocks of one group in create_rose_meta.
GroupBlocks(section, group, seed) ==
    LET sname == Get(section, "name").s
        gname == Get(group, "name").s
        levels == set_iter(model_levels(group), seed)
        fields == Values(Get(group, "fields"))
    IN <<"\n[field_config:">> \o sname \o <<":">> \o gname
       \o <<"]\ntitle=">> \o Get(group, "title").s
       \o <<"\n[field_config:">> \o sname \o <<":">> \o gname
       \o <<"=model_levels_for_group]\ntitle=Model Levels used by this group\ndescription=Vertical dimensions must define these levels to be valid\nvalues=\n">>
       \o Flatten([i \in 1..Len(levels) |->
                     <<"            ", levels[i], "\n">>])
       \o <<"\nsort-key=01\ncompulsory=true\n">>
       \o <<"\n[field_config:">> \o sname \o <<":">> \o gname
       \o <<"=vertical_dimension_for_group]\ntitle=Vertical dimension used by this group\ndescription=If you have edited the vertical dimensions please restart the GUI\n            to pick up the changes to the rose-app.conf file\nwidget[rose-config-edit]=vertical_dimension_choice.VertDimWidget\nsort-key=02\ncompulsory=true\n">>
       \o Flatten([i \in 1..Len(fields) |->
                     FieldBlocks(section, group, fields[i])])

\* The blocks of one section in create_rose_meta.
SectionBlocks(section, seed) ==
    LET groups == Values(Get(section, "groups"))
    IN <<"\n[field_config:">> \o Get(section, "name").s
       \o <<"]\ntitle=">> \o Get(section, "title").s
       \o Flatten([i \in 1..Len(groups) |->
                     GroupBlocks(section, groups[i], seed)])


\* add_file_meta: the output stream blocks, with the ids and the titles of
\* all fields.
add_file_meta(meta_data, rose_meta) ==
    LET sections == Values(Get(meta_data, "sections"))
        of_group(section, group) ==
            LET fields == Values(Get(group, "fields"))
            IN [i \in 1..Len(fields) |->
                  [value |-> Get(fields[i], "unique_id").s,
                   title |-> Get(section, "title").s \o <<": ">>
                             \o Get(group, "title").s \o <<": ">>
                             \o Get(fields[i], "item_title").s]]
        of_section(section) ==
            LET groups == Values(Get(section, "groups"))
            IN Flatten([i \in 1..Len(groups) |-> of_group(section, groups[i])])
        listed == Flatten([i \in 1..Len(sections) |-> of_section(sections[i])])
        values == Join([i \in 1..Len(listed) |-> listed[i].value], ", ")
        titles == Join([i \in 1..Len(listed) |-> listed[i].title], "\", \"")
    IN rose_meta
       \o <<"[output_stream]\nduplicate=true\nmacro=add_section.AddField, add_section.AddStream\ntitle=Output Streams\n\n[output_stream=name]\ntype=character\n\n[output_stream=timestep]\ntype=character\n\n[output_stream:field]\nduplicate=true\nmacro=add_section.AddField\ntitle=Fields\n\n[output_stream:field=id]\nvalues=">>
       \o values \o <<"\nvalue-titles=\"">> \o titles
       \o <<"\"\n\n[output_stream:field=temporal]\nvalues=instant,average,accumulate,minimum,maximum,once\n">>

\* level.replace("_", " ".title())
LevelTitle(level) ==
    CASE level = "BOTTOM_ATMOSPHERIC_LEVEL" -> "BOTTOM ATMOSPHERIC LEVEL"
      [] level = "TOP_WET_LEVEL" -> "TOP WET LEVEL"

\* add_vertical_meta: the blocks of the vertical dimension and one block for
\* each level, numbered from 1001.
add_vertical_meta(rose_meta, levels) ==
    rose_meta
    \o <<"\n[vertical_dimension]\nduplicate=true\ntitle=Vertical Dimension\n\n[vertical_dimension=name]\ntitle=Name\ndescription=Name of the vertical dimension\nhelp=The name used to identify this vertical dimension when associating a field\n     with it in Rose\ntype=character\ncompulsory=true\nfail-if=len(this) == 0 # Name must be specified\nsort-key=01\n\n[vertical_dimension=positive]\ntitle=Positive\ndescription=The positive direction\nhelp=The positive direction of the vertical axis, either up or down\nvalues=up, down\ncompulsory=true\nsort-key=02\n\n[vertical_dimension=units]\ntitle=Units\ndescription=Unit of measure\nhelp=The unit of measure for this vertical axis is restricted to be in metres\nvalues=m\ncompulsory=true\nsort-key=03\n\n[vertical_dimension=level_definition]\ntitle=Level boundaries\ndescription=Boundaries of levels in ascending order\nhelp=Positive numbers defining the edges of each level in the vertical\n     dimension. The boundaries should be entered in ascending order\nlength=:\ntype=real\nmacro=level_definition.Validator, level_definition.Transformer\nrange=0:\nfail-if=len(this)<2 # There must be at least two level boundaries\ncompulsory=true\nsort-key=04\n">>
    \o Flatten([i \in 1..Len(levels.items) |->
          <<"[vertical_dimension=">> \o levels.items[i].s \o <<"]\ntitle=">>
          \o <<LevelTitle(levels.items[i].s[1])>>
          \o <<"\ndescription=A Model Level\ntype=integer\n\nrange=0:\n# Layer out of range\nfail-if=this > len(vertical_dimension=level_definition)-1;\nsort-key=model-levels-">>
          \o <<ToString(1000 + i), "\n">>])

\* name.lower().replace(" ", "_")
LowerUnderscore(name) == CASE name = "foo bar" -> "foo_bar"
                          [] OTHER -> name

\* add_non_spatial_dims_meta: a block for each dimension that has neither a
\* label_definition nor an axis_definition.
add_non_spatial_dims_meta(non_spatial_dims_meta, rose_meta) ==
    LET dimension_type(type) == CASE type = "label_definition" -> "character"
                                  [] type = "axis_definition" -> "real"
        defined(dimension, key) ==
            HasKey(dimension, key) /\ Get(dimension, key) /= PyNone
        block(dimension) ==
            LET fields == Get(dimension, "fields").items
            IN <<"\n[non_spatial_dimensions=">>
               \o <<LowerUnderscore(Get(dimension, "name").s[1])>>
               \o <<"]\ntitle=">> \o Get(dimension, "name").s
               \o <<"\ndescription=Level definition for ">>
               \o Get(dimension, "name").s
               \o <<"\ntype=", dimension_type(Get(dimension, "type").s[1])>>
               \o <<"\nlength=:\ntrigger=">>
               \o Flatten([i \in 1..Len(fields) |->
                     <<"\n       =field_config:">> \o fields[i].items[1].s
                     \o <<":">> \o fields[i].items[2].s \o <<"=">>
                     \o fields[i].items[3].s \o <<": len(this) > 0 ;">>])
               \o <<"\nhelp=">> \o Get(dimension, "help").s
               \o (IF HasKey(dimension, "units")
                   THEN <<"\n    =Units: ">> \o Get(dimension, "units").s
                   ELSE << >>)
               \o <<"\n    =Necessary for:">>
               \o Flatten([i \in 1..Len(fields) |->
                     <<"\n    =    ">> \o fields[i].items[3].s \o <<"\n">>])
        dimensions == Values(non_spatial_dims_meta)
    IN rose_meta
       \o <<"\n[non_spatial_dimensions]\ntitle=Non-Spatial Dimensions\n">>
       \o Flatten([i \in 1..Len(dimensions) |->
             IF ~defined(dimensions[i], "label_definition")
                /\ ~defined(dimensions[i], "axis_definition")
             THEN block(dimensions[i]) ELSE << >>])

\* create_rose_meta: the text it passes to write_file, in a process with the
\* given seed.
create_rose_meta(meta_data, seed) ==
    LET sections == Values(Get(meta_data, "sections"))
        rose_meta ==
            <<"\n[field_config]\ntitle=LFRic Field Configuration\n">>
            \o Flatten([i \in 1..Len(sections) |->
                          SectionBlocks(sections[i], seed)])
    IN add_non_spatial_dims_meta(
           Get(meta_data, "non_spatial_dimensions"),
           add_vertical_meta(add_file_meta(meta_data, rose_meta),
                             Get(meta_data, "standard_level_markers")))

InitRose ==
    /\ OthersIdle("rose")
    /\ rose_dir \in RoseDirs
    /\ rose_meta_data \in RoseDocs
    /\ rose_pc = [r \in Runs |-> "start"]
    /\ rose_files = [r \in Runs |-> << >>]
    /\ rose_conf = [r \in Runs |-> << >>]
    /\ rose_json = [r \in Runs |-> << >>]

\* sort() of the paths of a listing: AllFiles has them in that order.
sorted(listing) ==
    LET indexes == SelectSeq([i \in 1..Len(AllFiles) |-> i],
                             LAMBDA i : i \in Range(listing))
    IN [k \in 1..Len(indexes) |-> AllFiles[indexes[k]].path]

\* find_fortran_files in run r, which starts when the run before it is
\* done: glob yields the files in some order, and the list is sorted.
FindFortranFiles(r) ==
    /\ rose_pc[r] = "start"
    /\ \A q \in Runs : q < r => rose_pc[q] = "done"
    /\ \E listing \in SetOrders(rose_dir) :
          rose_files' = [rose_files EXCEPT ![r] = sorted(listing)]
    /\ rose_pc' = [rose_pc EXCEPT ![r] = "found"]
    /\ UNCHANGED <<rose_dir, rose_meta_data, rose_conf, rose_json>>
    /\ UNCHANGED otherThanRose

\* create_rose_meta in run r; the process of the run has some hash seed.
CreateRoseMeta(r) ==
    /\ rose_pc[r] = "found"
    /\ \E seed \in SetOrders(Range(LevelNames)) :
          rose_conf' = [rose_conf EXCEPT
                          ![r] = create_rose_meta(rose_meta_data, seed)]
    /\ rose_pc' = [rose_pc EXCEPT ![r] = "conf"]
    /\ UNCHANGED <<rose_dir, rose_meta_data, rose_files, rose_json>>
    /\ UNCHANGED otherThanRose

\* write_json_meta in run r.
WriteSnapshot(r) ==
    /\ rose_pc[r] = "conf"
    /\ rose_json' = [rose_json EXCEPT
                       ![r] = json_dumps(data_for_disk(rose_meta_data),
                                         FALSE, TRUE) \o <<NewLine>>]
    /\ rose_pc' = [rose_pc EXCEPT ![r] = "done"]
    /\ UNCHANGED <<rose_dir, rose_meta_data, rose_files, rose_conf>>
    /\ UNCHANGED otherThanRose

NextRose ==
    \E r \in Runs : FindFortranFiles(r) \/ CreateRoseMeta(r) \/ WriteSnapshot(r)

SpecRose == InitRose /\ [][NextRose]_vars

\* C10: when two runs over the same input are done, they have read the
\* same files in the same order and written the same snapshot and the same
\* text of the configuration, the level names of model_levels_for_group in
\* the same order.
C10_TwoRunsIdenticalOutput ==
    (rose_pc = [r \in Runs |-> "done"]) =>
        /\ rose_files[1] = rose_files[2]
        /\ rose_json[1] = rose_json[2]
        /\ rose_conf[1] = rose_conf[2]


(***************************************************************************)
(* file_validator.validate_names, called on four names.                    *)
(***************************************************************************)
VnFiles == Range(AllFiles)
VnModuleNames == ModuleNames \cup {<<"s1", "g1", "x", "meta_mod">>}
VnMetaTypeNames == MetaTypeNames \cup {<<"s1", "g1", "x", "meta_type">>}
VnGroupNames == GroupNames \cup {<<"s1", "g1", "x">>}

InitNames ==
    /\ OthersIdle("names")
    /\ vn_args \in [file_name : VnFiles, module_name : VnModuleNames,
                    meta_type_name : VnMetaTypeNames,
                    group_name : VnGroupNames]
    /\ vn_pc = "call"
    /\ vn_valid = TRUE
    /\ vn_log = << >>

\* validate_names(file_name, module_name, meta_type_name, group_name)
ValidateNames ==
    /\ vn_pc = "call"
    /\ vn_log' = validate_names_errors(vn_args.file_name, vn_args.module_name,
                                       vn_args.meta_type_name,
                                       vn_args.group_name)
    /\ vn_valid' = (vn_log' = << >>)
    /\ vn_pc' = "returned"
    /\ UNCHANGED vn_args
    /\ UNCHANGED otherThanNames

NextNames == ValidateNames

SpecNames == InitNames /\ [][NextNames]_vars

\* What the four patterns find in the arguments of the call.
VnFound ==
    [file |-> ValidatorFileSearch(vn_args.file_name),
     module |-> MODULE_NAME_Search(vn_args.module_name),
     type |-> META_TYPE_NAME_Search(vn_args.meta_type_name),
     group |-> GROUP_NAME_Search(vn_args.group_name)]

\* The (section, group) pair of a match.
VnPair(match) == <<match.section_name, match.group_name>>

VnAllMatch ==
    /\ vn_args.group_name /= NoName
    /\ VnFound.file.found
    /\ VnFound.module.found
    /\ VnFound.type.found
    /\ VnFound.group.found

\* C11: validate_names returns True exactly when there is a group name, each
\* of the four names matches its pattern, and the (section, group) pairs of
\* the file name, the module name, the type name and the group name are
\* all the same pair.
C11_ValidIffAllNamesAgree ==
    (vn_pc = "returned") =>
        (vn_valid <=>
            /\ VnAllMatch
            /\ VnPair(VnFound.module) = VnPair(VnFound.file)
            /\ VnPair(VnFound.type) = VnPair(VnFound.file)
            /\ VnPair(VnFound.group) = VnPair(VnFound.file))

\* The call returned True for names whose group has two segments.
C11_Witness ==
    /\ vn_pc = "returned"
    /\ vn_valid
    /\ VnFound.file.group_name = <<"g1", "x">>

\* C12: when the four names match their patterns and only the section of
\* the type name is another one, validate_names returns False and logs the
\* module/type section mismatch and nothing else.
C12_OnlyTypeSectionMismatchReported ==
    (/\ vn_pc = "returned"
     /\ VnAllMatch
     /\ VnPair(VnFound.module) = VnPair(VnFound.file)
     /\ VnPair(VnFound.group) = VnPair(VnFound.file)
     /\ VnFound.type.group_name = VnFound.file.group_name
     /\ VnFound.type.section_name /= VnFound.file.section_name) =>
        (~vn_valid /\ vn_log = <<"Bad meta_type name">>)

\* The call returned for a type name of section s2 with the file, the module
\* and the group of section s1.
C12_Witness ==
    /\ vn_pc = "returned"
    /\ VnAllMatch
    /\ VnPair(VnFound.file) = <<"s1", <<"g1">>>>
    /\ VnPair(VnFound.module) = <<"s1", <<"g1">>>>
    /\ VnPair(VnFound.group) = <<"s1", <<"g1">>>>
    /\ VnPair(VnFound.type) = <<"s2", <<"g1">>>>
    /\ ~vn_valid


(***************************************************************************)
(* field_validator.validate_field, called on a Field.                      *)
(***************************************************************************)
\* The attributes validate_field reads, but for synonyms.
FieldAttributes ==
    <<"unique_id", "standard_name", "long_name", "units", "function_space",
      "trigger", "description", "data_type", "time_step",
      "recommended_interpolation">>

\* The attributes that have a check of their own, in the order of the
\* checks, and what is logged for each.
CheckedAttributes ==
    <<"unique_id", "units", "function_space", "trigger", "description",
      "data_type", "time_step", "recommended_interpolation">>

MissingMessage(attribute) ==
    CASE attribute = "unique_id" -> "A unique id is missing from a field"
      [] attribute = "units" -> "A unit of measure is missing from a field"
      [] attribute = "function_space" ->
            "A function space is missing from a field"
      [] attribute = "trigger" -> "Triggering syntax is missing from a field"
      [] attribute = "description" -> "A description is missing from a field"
      [] attribute = "data_type" -> "A data type is missing from a field"
      [] attribute = "time_step" -> "A time step is missing from a field"
      [] attribute = "recommended_interpolation" ->
            "A recommended_interpolation attribute is missing from a field"

NeitherNameMessage == "has neither a standard name or long name"

validate_field_errors_StopsAtFirst(field) ==
    LET Err(cond, msg) == IF cond THEN <<msg>> ELSE << >>
        all == Err(~Truthy(field.unique_id), MissingMessage("unique_id"))
            \o Err(~Truthy(field.standard_name) /\ ~Truthy(field.long_name),
                   NeitherNameMessage)
            \o Flatten([i \in 1..(Len(CheckedAttributes) - 1) |->
                  Err(~Truthy(field[CheckedAttributes[i + 1]]),
                      MissingMessage(CheckedAttributes[i + 1]))])
    IN IF all = << >> THEN << >> ELSE <<Head(all)>>

validate_field_errors_NoTimeStep(field) ==
    LET Err(cond, msg) == IF cond THEN <<msg>> ELSE << >>
    IN Err(~Truthy(field.unique_id), MissingMessage("unique_id"))
       \o Err(~Truthy(field.standard_name) /\ ~Truthy(field.long_name),
              NeitherNameMessage)
       \o Flatten([i \in 1..(Len(CheckedAttributes) - 1) |->
             Err(~Truthy(field[CheckedAttributes[i + 1]])
                 /\ CheckedAttributes[i + 1] /= "time_step",
                 MissingMessage(CheckedAttributes[i + 1]))])

\* The errors validate_field logs itself, in order: every check is an `if`
\* of its own.
validate_field_errors(field) ==
    LET Err(cond, msg) == IF cond THEN <<msg>> ELSE << >>
    IN Err(~Truthy(field.unique_id), MissingMessage("unique_id"))
       \o Err(~Truthy(field.standard_name) /\ ~Truthy(field.long_name),
              NeitherNameMessage)
       \o Flatten([i \in 1..(Len(CheckedAttributes) - 1) |->
             Err(~Truthy(field[CheckedAttributes[i + 1]]),
                 MissingMessage(CheckedAttributes[i + 1]))])

\* validate_field: no error of its own, and for each of CF and CMIP6 that
\* field.synonyms has, the validate_field of that standard accepts the field.
validate_field(field, accepts) ==
    /\ validate_field_errors(field) = << >>
    /\ "CF" \in field.synonyms => "CF" \in accepts
    /\ "CMIP6" \in field.synonyms => "CMIP6" \in accepts

\* The Fields of the calls: an attribute that is not set is None, or the
\* empty str.
VfFields ==
    {[a \in Range(FieldAttributes) \cup {"synonyms"} |->
        IF a = "synonyms" THEN synonyms
        ELSE IF a \in set THEN PyStr("x") ELSE unset] :
        set \in SUBSET Range(FieldAttributes),
        unset \in {PyNone, PyStr("")},
        synonyms \in SUBSET {"CF", "CMIP6"}}

InitField ==
    /\ OthersIdle("field")
    /\ vf_field \in VfFields
    /\ vf_accepts \in SUBSET {"CF", "CMIP6"}
    /\ vf_pc = "call"
    /\ vf_valid = TRUE
    /\ vf_log = << >>

\* validate_field(field)
ValidateField ==
    /\ vf_pc = "call"
    /\ vf_log' = validate_field_errors(vf_field)
    /\ vf_valid' = validate_field(vf_field, vf_accepts)
    /\ vf_pc' = "returned"
    /\ UNCHANGED <<vf_field, vf_accepts>>
    /\ UNCHANGED otherThanField

NextField == ValidateField

SpecField == InitField /\ [][NextField]_vars

\* The mandatory attributes the field of the call is missing.
VfMissing == {a \in Range(CheckedAttributes) : ~Truthy(vf_field[a])}

VfNeitherName ==
    ~Truthy(vf_field.standard_name) /\ ~Truthy(vf_field.long_name)

VdNumbers == {"1.5", "2"}

IsNumber(tok) == tok \in VdNumbers

\* A token of [a-zA-Z_]
IsWord(tok) == tok \notin {"(", ")", "=", ",", " "} \cup VdNumbers

\* The identifier made of the given words.
Ident(words) == Join([i \in 1..Len(words) |-> <<words[i]>>], "_")

\* The end of the longest run of [a-zA-Z_] that starts at token i.
RunEnd(toks, i) ==
    CHOOSE j \in i..Len(toks) :
        /\ \A k \in i..j : IsWord(toks[k])
        /\ j = Len(toks) \/ ~IsWord(toks[j + 1])

\* The first token from i on that is not in the given set, Len + 1 if none.
AfterSkip(toks, i, skipped) ==
    CHOOSE q \in i..(Len(toks) + 1) :
        /\ \A k \in i..(q - 1) : toks[k] \in skipped
        /\ q = Len(toks) + 1 \/ toks[q] \notin skipped

\* TOP_ARG_REGEX and BOTTOM_ARG_REGEX: the first place where the word, any
\* white space and "=", and then a run of [A-Za-z_] are found; the group is
\* that run.
ArgSearch(toks, word) ==
    LET hits == {p \in DOMAIN toks :
                    /\ toks[p] = word
                    /\ LET q == AfterSkip(toks, p + 1, {" ", "="})
                       IN q <= Len(toks) /\ IsWord(toks[q])}
        first == CHOOSE p \in hits : \A h \in hits : p <= h
        from == AfterSkip(toks, first + 1, {" ", "="})
    IN IF hits = {} THEN [found |-> FALSE, group |-> << >>]
       ELSE [found |-> TRUE, group |-> SubSeq(toks, from, RunEnd(toks, from))]

\* DIMENSION_TYPE_REGEX: the first run of [a-zA-Z_] that is followed, after
\* any white space, by "(" and later by ")"; the group is that run.
TypeSearch(toks) ==
    LET hits == {i \in DOMAIN toks :
                    /\ IsWord(toks[i])
                    /\ i = 1 \/ ~IsWord(toks[i - 1])
                    /\ LET q == AfterSkip(toks, RunEnd(toks, i) + 1, {" "})
                       IN /\ q <= Len(toks)
                          /\ toks[q] = "("
                          /\ \E r \in (q + 1)..Len(toks) : toks[r] = ")"}
        first == CHOOSE i \in hits : \A h \in hits : i <= h
    IN IF hits = {} THEN [found |-> FALSE, group |-> << >>]
       ELSE [found |-> TRUE, group |-> SubSeq(toks, first, RunEnd(toks, first))]

\* float(level)
float(text) == [t |-> "float", repr |-> CASE text = "1.5" -> "1.5"
                                          [] text = "2" -> "2.0"]

translate_vertical_dimension_DepthUp(toks) ==
    LET type == TypeSearch(toks)
        top_arg == ArgSearch(toks, "top")
        bottom_arg == ArgSearch(toks, "bottom")
        fixed_levels == SelectSeq(toks, IsNumber)
        Raised(message) == [exc |-> message, value |-> PyNone]
        Str(tokens) == [t |-> "str", s |-> tokens]
        model == IF "model" \in Range(type.group)
                 THEN <<K("top_arg", Str(top_arg.group)),
                        K("bottom_arg", Str(bottom_arg.group))>>
                 ELSE << >>
        levels == IF fixed_levels /= << >>
                  THEN <<K("level_definition",
                           PyList([i \in 1..Len(fixed_levels) |->
                                     float(fixed_levels[i])]))>>
                  ELSE << >>
    IN IF ~type.found THEN Raised("AttributeError")
       ELSE IF "model" \in Range(type.group) /\ ~top_arg.found
       THEN Raised("Top model level not declared")
       ELSE IF "model" \in Range(type.group) /\ ~bottom_arg.found
       THEN Raised("Bottom model level not declared")
       ELSE IF "height" \in Range(type.group) \/ "depth" \in Range(type.group)
       THEN [exc |-> "none",
             value |-> PyDict(model \o levels
                              \o <<K("units", PyStr("m")),
                                   K("positive", PyStr("POSITIVE_UP")),
                                   K("standard_name", PyStr("height"))>>)]
       ELSE Raised("Attribute 'positive' has been declared incorrectly")

\* translate_vertical_dimension(dimension_declaration): what it raises, or
\* the dict it returns, its keys in the order they are set.
translate_vertical_dimension(toks) ==
    LET type == TypeSearch(toks)
        top_arg == ArgSearch(toks, "top")
        bottom_arg == ArgSearch(toks, "bottom")
        fixed_levels == SelectSeq(toks, IsNumber)
        Raised(message) == [exc |-> message, value |-> PyNone]
        Str(tokens) == [t |-> "str", s |-> tokens]
        model == IF "model" \in Range(type.group)
                 THEN <<K("top_arg", Str(top_arg.group)),
                        K("bottom_arg", Str(bottom_arg.group))>>
                 ELSE << >>
        levels == IF fixed_levels /= << >>
                  THEN <<K("level_definition",
                           PyList([i \in 1..Len(fixed_levels) |->
                                     float(fixed_levels[i])]))>>
                  ELSE << >>
    IN IF ~type.found THEN Raised("AttributeError")
       ELSE IF "model" \in Range(type.group) /\ ~top_arg.found
       THEN Raised("Top model level not declared")
       ELSE IF "model" \in Range(type.group) /\ ~bottom_arg.found
       THEN Raised("Bottom model level not declared")
       ELSE IF "height" \in Range(type.group)
       THEN [exc |-> "none",
             value |-> PyDict(model \o levels
                              \o <<K("units", PyStr("m")),
                                   K("positive", PyStr("POSITIVE_UP")),
                                   K("standard_name", PyStr("height"))>>)]
       ELSE IF "depth" \in Range(type.group)
       THEN [exc |-> "none",
             value |-> PyDict(model \o levels
                              \o <<K("units", PyStr("m")),
                                   K("positive", PyStr("POSITIVE_DOWN")),
                                   K("standard_name", PyStr("depth"))>>)]
       ELSE Raised("Attribute 'positive' has been declared incorrectly")

\* The declarations of the calls: a type name and its arguments.
VdTypes ==
    {<<"model", "height", "dimension">>, <<"model", "depth", "dimension">>,
     <<"fixed", "height", "dimension">>, <<"fixed", "depth", "dimension">>,
     <<"fixed", "height", "depth", "dimension">>,
     <<"fixed", "dimension">>, <<"model", "dimension">>}

VdLevels ==
    {<<"TOP", "WET", "LEVEL">>, <<"BOTTOM", "ATMOSPHERIC", "LEVEL">>,
     <<"top", "wet", "level">>, <<"bottom", "level">>}

VdArgs ==
    [key : {"top", "bottom"}, value : VdLevels]
    \cup {[key |-> "", value |-> <<n>>] : n \in VdNumbers}

VdDeclarations ==
    [type : VdTypes, args : UNION {[1..n -> VdArgs] : n \in 0..MaxArgs}]

\* The text of a declaration: type(arg, arg), an argument being key=value
\* or a number.
DeclarationTokens(d) ==
    Ident(d.type) \o <<"(">>
    \o Flatten([i \in 1..Len(d.args) |->
          (IF i > 1 THEN <<",", " ">> ELSE << >>)
          \o (IF d.args[i].key = "" THEN d.args[i].value
              ELSE <<d.args[i].key, "=">> \o Ident(d.args[i].value))])
    \o <<")">>

InitVert ==
    /\ OthersIdle("vert")
    /\ vd_declaration \in VdDeclarations
    /\ vd_pc = "call"
    /\ vd_exc = "none"
    /\ vd_result = PyNone

\* translate_vertical_dimension(dimension_declaration)
TranslateVerticalDimension ==
    /\ vd_pc = "call"
    /\ LET out == translate_vertical_dimension(
                      DeclarationTokens(vd_declaration))
       IN /\ vd_exc' = out.exc
          /\ vd_result' = out.value
          /\ vd_pc' = IF out.exc = "none" THEN "returned" ELSE "raised"
    /\ UNCHANGED vd_declaration
    /\ UNCHANGED otherThanVert

NextVert == TranslateVerticalDimension

SpecVert == InitVert /\ [][NextVert]_vars

\* The names the declaration gives as top= and as bottom=.
VdGiven(key) ==
    {Ident(vd_declaration.args[i].value) :
        i \in {j \in DOMAIN vd_declaration.args :
                 vd_declaration.args[j].key = key}}

\* C15: for a declaration whose type name contains "model", a call that
\* returns gives as top_arg a name the declaration gives as top= and as
\* bottom_arg a name it gives as bottom=, and the call fails when the
\* declaration has no top= or no bottom=.
C15_ModelArgumentsAsGiven ==
    (vd_pc /= "call" /\ "model" \in Range(vd_declaration.type)) =>
        /\ (VdGiven("top") = {} \/ VdGiven("bottom") = {}) => vd_pc = "raised"
        /\ vd_pc = "returned" =>
              /\ Get(vd_result, "top_arg").s \in VdGiven("top")
              /\ Get(vd_result, "bottom_arg").s \in VdGiven("bottom")

\* C16: a value returned has units "m" and either height and POSITIVE_UP
\* for a type name with "height" in it, or depth and POSITIVE_DOWN for one
\* with "depth" in it; a type name with neither always fails.
C16_PositiveFollowsTypeName ==
    (vd_pc /= "call") =>
        /\ vd_pc = "returned" =>
              /\ Get(vd_result, "units") = PyStr("m")
              /\ \/ /\ "height" \in Range(vd_declaration.type)
                    /\ Get(vd_result, "standard_name") = PyStr("height")
                    /\ Get(vd_result, "positive") = PyStr("POSITIVE_UP")
                 \/ /\ "depth" \in Range(vd_declaration.type)
                    /\ Get(vd_result, "standard_name") = PyStr("depth")
                    /\ Get(vd_result, "positive") = PyStr("POSITIVE_DOWN")
        /\ ("height" \notin Range(vd_declaration.type)
            /\ "depth" \notin Range(vd_declaration.type)) => vd_pc = "raised"

\* A model depth declaration with both arguments was translated.
C16_Witness ==
    /\ vd_pc = "returned"
    /\ vd_declaration.type = <<"model", "depth", "dimension">>
    /\ Get(vd_result, "positive") = PyStr("POSITIVE_DOWN")
    /\ HasKey(vd_result, "top_arg")


(***************************************************************************)
(* FortranMetaDataReader.extract_field: the loop over the Component_Spec   *)
(* of one record. A parameter is its key, the class of its value, the text *)
(* of the value as tokens, and for an array of non-spatial dimensions the  *)
(* list parse_non_spatial_dimension returns for it.                        *)
(***************************************************************************)
MaxParams == 3

key_blacklist ==
    {"top", "bottom", "label_definition", "axis_definition",
     "dimension_name", "dimension_category", "non_spatial_units",
     "help_text"}

\* hasattr(field, key): the attributes the validator and the writers read
\* from every Field.
hasattr(key) ==
    key \in Range(FieldAttributes)
            \cup {"vertical_dimension", "non_spatial_dimension", "synonyms",
                  "misc_meta_data", "file_name"}

\* The file the record is in, by the "__"-separated parts of its name.
EfFileName == <<"s1", "g1", "meta_mod.f90">>

\* Field(file_name)
NewField == [file_name |-> EfFileName, unique_id |-> "None", values |-> << >>]

\* field.add_value(key, value). Field is defined outside this package's
\* reader: an attribute the Field has is stored; for one it does not have
\* the call may store it or raise.
add_value(field, key, value) ==
    LET stored == [field EXCEPT
                     !.values = Append(@, <<key, value>>),
                     !.unique_id = IF key = "unique_id" THEN value[1] ELSE @]
    IN IF hasattr(key)
       THEN {[exc |-> "none", field |-> stored]}
       ELSE {[exc |-> "none", field |-> stored],
             [exc |-> "AttributeError", field |-> field]}

\* string[1:-1]
StripQuotes(text) == SubSeq(text, 2, Len(text) - 1)

EfRegistered(dims, name) == \E i \in DOMAIN dims : dims[i].name = name

EfStored(dims, name) == dims[CHOOSE i \in DOMAIN dims : dims[i].name = name]

NsdConflict == "Non-spatial dimension does not match previous dimension"

\* find_nsd as extract_field calls it: what it raises, and the field, the
\* registry and the errors it leaves.
RECURSIVE find_nsd(_, _, _, _, _)
find_nsd(nsd_list, field, dims, errors, at) ==
    IF nsd_list = << >>
    THEN [exc |-> "none", field |-> field, dims |-> dims, log |-> errors]
    ELSE
      LET nsd == Head(nsd_list)
          added == CHOOSE r \in add_value(field, "non_spatial_dimension",
                                          <<nsd.name>>) : TRUE
          ref == <<field.file_name[1], field.file_name[2], field.unique_id>>
      IN IF Len(field.file_name) /= 3
         THEN [exc |-> "ValueError", field |-> added.field, dims |-> dims,
               log |-> errors]
         ELSE IF ~EfRegistered(dims, nsd.name)
         THEN find_nsd(Tail(nsd_list), added.field,
                       Append(dims, [name |-> nsd.name,
                                     definition |-> nsd.definition,
                                     fields |-> <<ref>>]),
                       errors, at)
         ELSE IF EfStored(dims, nsd.name).definition = nsd.definition
         THEN find_nsd(Tail(nsd_list), added.field,
                       [i \in DOMAIN dims |->
                          IF dims[i].name = nsd.name
                          THEN [dims[i] EXCEPT
                                  !.fields = AppendIfAbsent(@, ref)]
                          ELSE dims[i]],
                       errors, at)
         ELSE [exc |-> NsdConflict, field |-> added.field, dims |-> dims,
               log |-> errors \o
                  [i \in 1..Len(EfStored(dims, nsd.name).fields) |->
                     [level |-> "error",
                      message |-> "Non-spatial dimension does not match",
                      key |-> "non_spatial_dimension", at |-> at,
                      error |-> ""]]]

\* The body of the try block for one parameter: the outcomes it can have.
\* valid is FALSE when the body itself clears valid_field.
resolve(p, field, dims, at) ==
    LET Added(value) ==
            {[exc |-> r.exc, field |-> r.field, dims |-> dims,
              log |-> << >>, valid |-> TRUE] :
                r \in add_value(field, p.key, value)}
        Raised(exc) ==
            {[exc |-> exc, field |-> field, dims |-> dims, log |-> << >>,
              valid |-> TRUE]}
    IN CASE p.class = "Level_3_Expr" ->
              \* extract_multi_line_statement joins the two literals
              Added(<<p.text[2], p.text[5]>>)
         [] p.class = "Char_Literal_Constant" -> Added(StripQuotes(p.text))
         [] p.class \in {"Part_Ref", "Structure_Constructor"} ->
              LET dimension == translate_vertical_dimension(p.text)
              IN IF dimension.exc /= "none" THEN Raised(dimension.exc)
                 ELSE Added(p.text)
         [] p.class = "Array_Constructor" ->
              IF p.key = "non_spatial_dimension"
              THEN LET r == find_nsd(p.nsd, field, dims, << >>, at)
                   IN {[exc |-> r.exc, field |-> r.field, dims |-> r.dims,
                        log |-> r.log, valid |-> TRUE]}
              ELSE IF p.key \in {"synonyms", "misc_meta_data"}
              THEN Added(StripQuotes(p.text))
              ELSE {[exc |-> "none", field |-> field, dims |-> dims,
                     log |-> <<[level |-> "error",
                                message |-> "is not a valid attribute",
                                key |-> p.key, at |-> at, error |-> ""]>>,
                     valid |-> FALSE]}
         [] OTHER -> Added(p.text)

\* A handler that lets the exception leave extract_field.
except_Exception_Propagates(key, field, at, error) ==
    [pc |-> "raised", exc |-> error, log |-> << >>]

\* `except Exception as error:` a warning that names the attribute and the
\* field, or the file when the field has no unique_id yet; the loop goes on.
except_Exception(key, field, at, error) ==
    [pc |-> "loop", exc |-> "none",
     log |-> <<[level |-> "warning",
                message |-> IF field.unique_id /= "None"
                            THEN "Attribute on field in file is invalid"
                            ELSE "Key in file is invalid",
                key |-> key, at |-> at, error |-> error]>>]

\* The parameters of the records.
EfParameters ==
    LET P(key, class, text, nsd) ==
            [key |-> key, class |-> class, text |-> text, nsd |-> nsd]
        D(name, definition) == [name |-> name, definition |-> definition]
    IN {P("unique_id", "Char_Literal_Constant", <<"'", "s1__f1", "'">>, << >>),
        P("description", "Level_3_Expr",
          <<"'", "a ", "'", "'", "b", "'">>, << >>),
        P("units", "Name", <<"m">>, << >>),
        P("vertical_dimension", "Structure_Constructor",
          <<"fixed", "_", "height", "_", "dimension", "(", ")">>, << >>),
        P("vertical_dimension", "Structure_Constructor",
          <<"fixed", "_", "dimension", "(", ")">>, << >>),
        P("non_spatial_dimension", "Array_Constructor", << >>,
          <<D("a", "x")>>),
        P("non_spatial_dimension", "Array_Constructor", << >>,
          <<D("a", "y")>>),
        P("synonyms", "Array_Constructor", <<"'", "CF", "'">>, << >>),
        P("colour", "Name", <<"red">>, << >>),
        P("levels", "Array_Constructor", << >>, << >>),
        P("top", "Name", <<"TOP_WET_LEVEL">>, << >>)}

\* self.non_spatial_dims when the record is reached: empty, or holding a
\* dimension an earlier record registered.
EfRegistries ==
    {<< >>,
     <<[name |-> "a", definition |-> "x",
        fields |-> <<<<"s1", "g1", "s1__f0">>>>]>>}

InitExtract ==
    /\ OthersIdle("extract")
    /\ ef_params \in UNION {[1..n -> EfParameters] : n \in 1..MaxParams}
    /\ ef_i = 0
    /\ ef_field = NewField
    /\ ef_dims \in EfRegistries
    /\ ef_valid = TRUE
    /\ ef_log = << >>
    /\ ef_tried = << >>
    /\ ef_pc = "loop"
    /\ ef_exc = "none"

\* The loop has a parameter to take.
EfTake == ef_pc = "loop" /\ ef_i < Len(ef_params)

\* `if key in key_blacklist: continue`
SkipIgnored ==
    /\ EfTake
    /\ ef_params[ef_i + 1].key \in key_blacklist
    /\ ef_i' = ef_i + 1
    /\ UNCHANGED <<ef_params, ef_field, ef_dims, ef_valid, ef_log, ef_tried,
                   ef_pc, ef_exc>>
    /\ UNCHANGED otherThanExtract

\* What is logged before the try block for an attribute the Field lacks.
Unexpected(p, at) ==
    IF hasattr(p.key) THEN << >>
    ELSE <<[level |-> "error", message |-> "Unexpected Field Property",
            key |-> p.key, at |-> at, error |-> ""]>>

\* The try block ends without an exception.
ResolveAttribute ==
    /\ EfTake
    /\ LET at == ef_i + 1
           p == ef_params[at]
       IN /\ p.key \notin key_blacklist
          /\ \E out \in resolve(p, ef_field, ef_dims, at) :
               /\ out.exc = "none"
               /\ ef_field' = out.field
               /\ ef_dims' = out.dims
               /\ ef_log' = ef_log \o Unexpected(p, at) \o out.log
               /\ ef_valid' = (ef_valid /\ hasattr(p.key) /\ out.valid)
          /\ ef_tried' = Append(ef_tried, at)
          /\ ef_i' = at
    /\ UNCHANGED <<ef_params, ef_pc, ef_exc>>
    /\ UNCHANGED otherThanExtract

\* The try block raises: the handler takes the exception.
CatchException ==
    /\ EfTake
    /\ LET at == ef_i + 1
           p == ef_params[at]
       IN /\ p.key \notin key_blacklist
          /\ \E out \in resolve(p, ef_field, ef_dims, at) :
               /\ out.exc /= "none"
               /\ LET handled == except_Exception(p.key, out.field, at,
                                                  out.exc)
                  IN /\ ef_log' = ef_log \o Unexpected(p, at) \o out.log
                                         \o handled.log
                     /\ ef_pc' = handled.pc
                     /\ ef_exc' = handled.exc
               /\ ef_field' = out.field
               /\ ef_dims' = out.dims
               /\ ef_valid' = FALSE
          /\ ef_tried' = Append(ef_tried, at)
          /\ ef_i' = at
    /\ UNCHANGED ef_params
    /\ UNCHANGED otherThanExtract

\* `return field, valid_field`
ExtractFieldReturn ==
    /\ ef_pc = "loop"
    /\ ef_i = Len(ef_params)
    /\ ef_pc' = "returned"
    /\ UNCHANGED <<ef_params, ef_i, ef_field, ef_dims, ef_valid, ef_log,
                   ef_tried, ef_exc>>
    /\ UNCHANGED otherThanExtract

NextExtract ==
    \/ SkipIgnored
    \/ ResolveAttribute
    \/ CatchException
    \/ ExtractFieldReturn

SpecExtract == InitExtract /\ [][NextExtract]_vars

\* The positions of the log records with the given message.
EfLogged(message) ==
    {ef_log[n].at : n \in {m \in DOMAIN ef_log : ef_log[m].message = message}}

\* The positions where find_nsd met a conflict.
EfConflicts == EfLogged("Non-spatial dimension does not match")

\* The positions where the handler took an exception.
EfCaught ==
    {ef_log[n].at : n \in {m \in DOMAIN ef_log : ef_log[m].level = "warning"}}

\* C17: a conflict find_nsd raises while a record is extracted leaves
\* extract_field as an exception, it is not only logged by the handler, and
\* no attribute after the one with the conflict is processed.
C17_ConflictStopsRecord ==
    \A k \in EfConflicts :
        /\ ef_pc = "raised"
        /\ k \notin EfCaught
        /\ \A n \in DOMAIN ef_tried : ef_tried[n] <= k

\* C20: extract_field never ends by an exception; every parameter the loop
\* has taken whose key is not ignored has entered the try block, those
\* after an unexpected attribute or an exception included, and the loop
\* returns only when it has taken them all; an unexpected attribute or an
\* exception leaves valid_field False.
C20_ErrorsDoNotStopExtraction ==
    (ef_pc /= "idle") =>
        /\ ef_pc \in {"loop", "returned"}
        /\ ef_exc = "none"
        /\ Range(ef_tried) = {k \in 1..ef_i :
                                 ef_params[k].key \notin key_blacklist}
        /\ ef_pc = "returned" => ef_i = Len(ef_params)
        /\ (EfLogged("Unexpected Field Property") \cup EfCaught /= {})
              => ~ef_valid

\* extract_field returned after an exception on one attribute and an
\* unexpected attribute, and an attribute after both was processed.
C20_Witness ==
    /\ ef_pc = "returned"
    /\ \E k \in EfCaught, u \in EfLogged("Unexpected Field Property") :
          \E n \in DOMAIN ef_tried : ef_tried[n] > k /\ ef_tried[n] > u
    /\ ~ef_valid


(***************************************************************************)
(* entities.Group: the fields of one group, by unique_id, in the order     *)
(* they were added. Two Fields with the same unique_id are told apart by   *)
(* their item_title.                                                       *)
(***************************************************************************)
MaxAdds == 4

GroupName == "Test Group"

GrFields == [unique_id : {"s1__a", "s1__b"}, item_title : {"one", "two"}]

\* unique_id in self.fields
InGroup(fields, unique_id) ==
    \E i \in DOMAIN fields : fields[i].unique_id = unique_id

AlreadyInGroup(field) ==
    [message |-> "Field with unique ID is already in Group",
     unique_id |-> field.unique_id, group |-> GroupName]

\* A group where the field added last replaces the one stored.
add_field_Overwrites(fields, field) ==
    IF InGroup(fields, field.unique_id)
    THEN [fields |-> [i \in DOMAIN fields |->
                        IF fields[i].unique_id = field.unique_id
                        THEN field ELSE fields[i]],
          log |-> <<AlreadyInGroup(field)>>]
    ELSE [fields |-> Append(fields, field), log |-> << >>]

\* Group.add_field(field): a field whose unique_id is in the group is not
\* stored and an error is logged; any other is stored under its unique_id.
add_field(fields, field) ==
    IF InGroup(fields, field.unique_id)
    THEN [fields |-> fields, log |-> <<AlreadyInGroup(field)>>]
    ELSE [fields |-> Append(fields, field), log |-> << >>]

InitGroup ==
    /\ OthersIdle("group")
    /\ gr_fields = << >>
    /\ gr_added = << >>
    /\ gr_log = << >>

\* test_group.add_field(test_field)
AddField ==
    /\ Len(gr_added) < MaxAdds
    /\ \E field \in GrFields :
         LET out == add_field(gr_fields, field)
         IN /\ gr_fields' = out.fields
            /\ gr_log' = gr_log \o out.log
            /\ gr_added' = Append(gr_added, field)
    /\ UNCHANGED otherThanGroup

NextGroup == AddField

SpecGroup == InitGroup /\ [][NextGroup]_vars

\* The calls that gave a unique_id an earlier call had given.
GrRepeats ==
    {n \in DOMAIN gr_added :
        \E m \in 1..(n - 1) : gr_added[m].unique_id = gr_added[n].unique_id}

\* C19: the unique_ids of a Group are distinct; the field stored under an
\* id is the first one added with it; and there is one error in the log for
\* each call that gave an id already in the group, naming that id.
C19_UniqueIdOncePerGroup ==
    /\ \A i, j \in DOMAIN gr_fields :
          gr_fields[i].unique_id = gr_fields[j].unique_id => i = j
    /\ \A i \in DOMAIN gr_fields :
          \E n \in (DOMAIN gr_added) \ GrRepeats : gr_added[n] = gr_fields[i]
    /\ Len(gr_fields) = Cardinality((DOMAIN gr_added) \ GrRepeats)
    /\ Len(gr_log) = Cardinality(GrRepeats)
    /\ \A n \in GrRepeats :
          \E l \in DOMAIN gr_log :
              /\ gr_log[l].unique_id = gr_added[n].unique_id
              /\ l = Cardinality({m \in GrRepeats : m <= n})

\* A second Field was added under a unique_id of the group and it is the
\* first one that is stored.
C19_Witness ==
    /\ Len(gr_log) >= 1
    /\ \E n \in GrRepeats :
          /\ \A i \in DOMAIN gr_fields : gr_fields[i] /= gr_added[n]
          /\ InGroup(gr_fields, gr_added[n].unique_id)

(***************************************************************************)
(* read_fortran_files: the loop over the records of one file, after the    *)
(* Group of the file has been made.                                        *)
(***************************************************************************)
MaxRecords == 2

\* A Field with every attribute the validator checks, but for those named.
RlField(unique_id, missing) ==
    [a \in Range(FieldAttributes) \cup {"synonyms"} |->
        IF a = "synonyms" THEN {}
        ELSE IF a \in missing THEN PyNone
        ELSE IF a = "unique_id" THEN PyStr(unique_id)
        ELSE PyStr("x")]

\* What extract_field returns for the records: the field and valid.
RlRecords ==
    [field : {RlField("s1__a", {}), RlField("s1__b", {}),
              RlField("s1__c", {"units"}), RlField("", {"unique_id"})},
     valid : BOOLEAN]

\* The Field as the Group stores it.
Stored_Field(field) ==
    [unique_id |-> IF field.unique_id.t = "str" THEN field.unique_id.s[1]
                   ELSE "None",
     item_title |-> field.long_name.s[1]]

InitRecords ==
    /\ OthersIdle("records")
    /\ rl_records \in UNION {[1..n -> RlRecords] : n \in 1..MaxRecords}
    /\ rl_i = 0
    /\ rl_group = << >>
    /\ rl_valid_meta_data \in BOOLEAN
    /\ rl_file_valid = TRUE
    /\ rl_valid_files = 0
    /\ rl_log = << >>
    /\ rl_pc = "loop"

\* The loop has a record to take.
RlTake == rl_pc = "loop" /\ rl_i < Len(rl_records)

\* validate_field(field) is True: the field is added to the group.
AttachField ==
    /\ RlTake
    /\ LET record == rl_records[rl_i + 1]
           out == add_field(rl_group, Stored_Field(record.field))
       IN /\ validate_field(record.field, {})
          /\ rl_group' = out.fields
          /\ rl_log' = rl_log \o out.log
          /\ rl_valid_meta_data' = (rl_valid_meta_data /\ record.valid)
          /\ rl_file_valid' = (rl_file_valid /\ record.valid)
    /\ rl_i' = rl_i + 1
    /\ UNCHANGED <<rl_records, rl_valid_files, rl_pc>>
    /\ UNCHANGED otherThanRecords

\* validate_field(field) is False: an error names the field, the flags are
\* cleared, and the field is left out of the group.
RejectField ==
    /\ RlTake
    /\ LET record == rl_records[rl_i + 1]
       IN /\ ~validate_field(record.field, {})
          /\ rl_log' = Append(rl_log,
                              [message |-> "is invalid. Please check",
                               unique_id |-> record.field.unique_id,
                               group |-> ""])
    /\ rl_valid_meta_data' = FALSE
    /\ rl_file_valid' = FALSE
    /\ rl_i' = rl_i + 1
    /\ UNCHANGED <<rl_records, rl_group, rl_valid_files, rl_pc>>
    /\ UNCHANGED otherThanRecords

\* `if file_valid: valid_files += 1`
RecordsDone ==
    /\ rl_pc = "loop"
    /\ rl_i = Len(rl_records)
    /\ rl_valid_files' = IF rl_file_valid THEN rl_valid_files + 1
                         ELSE rl_valid_files
    /\ rl_pc' = "done"
    /\ UNCHANGED <<rl_records, rl_i, rl_group, rl_valid_meta_data,
                   rl_file_valid, rl_log>>
    /\ UNCHANGED otherThanRecords

NextRecords ==
    \/ AttachField
    \/ RejectField
    \/ RecordsDone

SpecRecords == InitRecords /\ [][NextRecords]_vars

MaxSegments == 3

Char_Literal_Constant(chars) ==
    [class |-> "Char_Literal_Constant", string |-> <<"'">> \o chars \o <<"'">>]

\* The parse tree of the concatenation of the segments, which associates
\* to the left.
RECURSIVE Level_3_Expr(_)
Level_3_Expr(segments) ==
    LET n == Len(segments)
    IN [class |-> "Level_3_Expr",
        children |-> <<IF n = 2 THEN Char_Literal_Constant(segments[1])
                       ELSE Level_3_Expr(SubSeq(segments, 1, n - 1)),
                       "//",
                       Char_Literal_Constant(segments[n])>>]

\* str.replace("\n", " ")
ReplaceNewlines(chars) ==
    [i \in DOMAIN chars |-> IF chars[i] = "\n" THEN " " ELSE chars[i]]

\* extract_multi_line_statement(statement): the loop returns in its first
\* iteration, so only the first child is looked at; item.parent is the
\* statement.
RECURSIVE extract_multi_line_statement(_)
extract_multi_line_statement(statement) ==
    LET item == statement.children[1]
        value_2 == StripQuotes(statement.children[3].string)
    IN IF item.class = "Char_Literal_Constant"
       THEN StripQuotes(item.string) \o value_2
       ELSE IF item.class = "Level_3_Expr"
       THEN ReplaceNewlines(extract_multi_line_statement(item) \o value_2)
       ELSE PyNone

\* The literals of the statements.
MlLiterals == {<<"a">>, <<"b", "\n">>, <<"\n", "c">>, << >>}

InitMulti ==
    /\ OthersIdle("multi")
    /\ ml_segments \in UNION {[1..n -> MlLiterals] : n \in 2..MaxSegments}
    /\ ml_pc = "call"
    /\ ml_value = << >>

\* value = self.extract_multi_line_statement(parameter.children[1])
ExtractMultiLine ==
    /\ ml_pc = "call"
    /\ ml_value' = extract_multi_line_statement(Level_3_Expr(ml_segments))
    /\ ml_pc' = "returned"
    /\ UNCHANGED ml_segments
    /\ UNCHANGED otherThanMulti

NextMulti == ExtractMultiLine

SpecMulti == InitMulti /\ [][NextMulti]_vars

\* C21: the value returned for a chain of two or more literals is the
\* literals joined left to right with every newline replaced by a space.
C21_JoinedWithNewlinesCollapsed ==
    (ml_pc = "returned") =>
        ml_value = ReplaceNewlines(
                       Flatten([i \in DOMAIN ml_segments |-> ml_segments[i]]))


(***************************************************************************)
(* dimension_parser.parse_non_spatial_dimension. A child of the value list *)
(* is the sequence of its Component_Spec, each a key and the text of its   *)
(* value.                                                                  *)
(***************************************************************************)
MaxSubRecords == 2

MaxAttributes == 2

NoException == [type |-> "none"]

\* types = {"NUMERICAL": ..., "CATEGORICAL": ...}
NsdTypes(category) ==
    CASE category = "NUMERICAL" -> "axis_definition"
      [] category = "CATEGORICAL" -> "label_definition"

\* string[1:-1].lower() of the name literals
LowerName(text) ==
    CASE text = "'Foo'" -> "foo"
      [] text = "'bar'" -> "bar"
      [] text = "''" -> ""

\* string[1:-1] of the other literals
Unquoted(text) == CASE text = "'h'" -> "h" [] text = "'m'" -> "m"

\* The loop over the Component_Spec of one child, from the i-th on: the
\* exception it raises, or the definition it builds.
RECURSIVE ParseAttributes(_, _, _, _)
ParseAttributes(nsd, i, definition, unique_id) ==
    IF i > Len(nsd) THEN [exc |-> NoException, definition |-> definition]
    ELSE
      LET key == nsd[i].key
          text == nsd[i].value
          Update(k, v) ==
              ParseAttributes(nsd, i + 1, DictSet(definition, PyStr(k), v),
                              unique_id)
      IN CASE key = "dimension_name" -> Update("name", PyStr(LowerName(text)))
           [] key = "dimension_category" ->
                IF text \in {"NUMERICAL", "CATEGORICAL"}
                THEN Update("type", PyStr(NsdTypes(text)))
                ELSE [exc |-> [type |-> "KeyError", key |-> text],
                      definition |-> definition]
           [] key = "label_definition" ->
                Update("label_definition", PyList(<<PyStr("a"), PyStr("b")>>))
           [] key = "axis_definition" ->
                Update("axis_definition", PyList(<<PyStr("1"), PyStr("2")>>))
           [] key = "help_text" -> Update("help", PyStr(Unquoted(text)))
           [] key = "non_spatial_units" -> Update("unit", PyStr(Unquoted(text)))
           [] OTHER ->
                [exc |-> [type |-> "Exception",
                          message |-> "Unrecognised non-spatial-dimension attribute",
                          attribute |-> key, field |-> unique_id],
                 definition |-> definition]

\* A parser that lets a definition without a name through.
name_required_NotChecked(definition, unique_id) == NoException

\* `if not definition.get("name", None): raise`
name_required(definition, unique_id) ==
    IF HasKey(PyDict(definition), "name")
       /\ Truthy(Get(PyDict(definition), "name"))
    THEN NoException
    ELSE [type |-> "Exception",
          message |-> "Non-spatial dimension requires 'dimension_name' attribute",
          attribute |-> "dimension_name", field |-> unique_id]

\* The Component_Spec of the children.
PnAttributes ==
    {[key |-> "dimension_name", value |-> "'Foo'"],
     [key |-> "dimension_name", value |-> "''"],
     [key |-> "dimension_category", value |-> "NUMERICAL"],
     [key |-> "dimension_category", value |-> "OTHER"],
     [key |-> "help_text", value |-> "'h'"],
     [key |-> "axis_definition", value |-> "(/1, 2/)"],
     [key |-> "unrecognised_attribute", value |-> "'h'"]}

PnChildren == UNION {[1..n -> PnAttributes] : n \in 0..MaxAttributes}

InitParse ==
    /\ OthersIdle("parse")
    /\ pn_field \in {"None", "dummy__field"}
    /\ pn_len \in 1..MaxSubRecords
    /\ pn_i = 0
    /\ pn_cur = << >>
    /\ pn_definitions = << >>
    /\ pn_pc = "loop"
    /\ pn_exc = NoException

\* One iteration of `for nsd in non_spatial_dimension.children:` that ends
\* with the definition appended.
ParseChild ==
    /\ pn_pc = "loop"
    /\ pn_i < pn_len
    /\ \E nsd \in PnChildren :
         LET out == ParseAttributes(nsd, 1, << >>, pn_field)
         IN /\ out.exc = NoException
            /\ name_required(out.definition, pn_field) = NoException
            /\ pn_definitions' = Append(pn_definitions, PyDict(out.definition))
            /\ pn_cur' = nsd
    /\ pn_i' = pn_i + 1
    /\ UNCHANGED <<pn_field, pn_len, pn_pc, pn_exc>>
    /\ UNCHANGED otherThanParse

\* One iteration that raises: in the loop over the attributes, or for the
\* missing name after the definition was appended.
ParseChildRaises ==
    /\ pn_pc = "loop"
    /\ pn_i < pn_len
    /\ \E nsd \in PnChildren :
         LET out == ParseAttributes(nsd, 1, << >>, pn_field)
             unnamed == name_required(out.definition, pn_field)
         IN /\ out.exc /= NoException \/ unnamed /= NoException
            /\ pn_exc' = IF out.exc /= NoException THEN out.exc ELSE unnamed
            /\ pn_definitions' =
                 IF out.exc /= NoException THEN pn_definitions
                 ELSE Append(pn_definitions, PyDict(out.definition))
            /\ pn_cur' = nsd
    /\ pn_i' = pn_i + 1
    /\ pn_pc' = "raised"
    /\ UNCHANGED <<pn_field, pn_len>>
    /\ UNCHANGED otherThanParse

\* `return definitions`
ParseReturn ==
    /\ pn_pc = "loop"
    /\ pn_i = pn_len
    /\ pn_pc' = "returned"
    /\ UNCHANGED <<pn_field, pn_len, pn_i, pn_cur, pn_definitions, pn_exc>>
    /\ UNCHANGED otherThanParse

NextParse ==
    \/ ParseChild
    \/ ParseChildRaises
    \/ ParseReturn

SpecParse == InitParse /\ [][NextParse]_vars

PnRecognised ==
    {"dimension_name", "dimension_category", "label_definition",
     "axis_definition", "help_text", "non_spatial_units"}

\* The first attribute of the child that is not recognised, 0 if none.
PnFirstUnrecognised(nsd) ==
    LET hits == {i \in DOMAIN nsd : nsd[i].key \notin PnRecognised}
    IN IF hits = {} THEN 0 ELSE CHOOSE i \in hits : \A h \in hits : i <= h

\* The child has a dimension_name attribute.
PnNamed(nsd) == \E i \in DOMAIN nsd : nsd[i].key = "dimension_name"

CmipSource ==
    [label \in {"tas", "pr"} |->
        IF label = "tas" THEN [units |-> "K", cf_id |-> "air_temperature"]
        ELSE [units |-> "kg m-2 s-1", cf_id |-> "precipitation_flux"]]

\* A validator that does not compare the units.
CMIP_validate_field_log_NoUnits(test_field) ==
    LET cmip_synonyms == IF "CMIP6" \in DOMAIN test_field.synonyms
                         THEN test_field.synonyms["CMIP6"] ELSE << >>
        cf_present == "CF" \in DOMAIN test_field.synonyms
        cf_synonyms == IF cf_present THEN test_field.synonyms["CF"] ELSE << >>
        Log(level, message, code) ==
            <<[level |-> level, message |-> message, code |-> code,
               field |-> test_field.unique_id]>>
        ForCode(cmip_value) ==
            IF cmip_value \in DOMAIN CmipSource
            THEN LET dictionary_cmip == CmipSource[cmip_value]
                 IN << >>
                    \o (IF cf_synonyms /= << >>
                           /\ dictionary_cmip.cf_id \notin Range(cf_synonyms)
                        THEN Log("error", "different CF code", cmip_value)
                        ELSE << >>)
            ELSE Log("exception", "CMIP6 code is not recognised", cmip_value)
    IN (IF cmip_synonyms = << >>
        THEN Log("exception", "has no CMIP record", "")
        ELSE << >>)
       \o Flatten([i \in DOMAIN cmip_synonyms |-> ForCode(cmip_synonyms[i])])

\* What CMIP.validate_field logs, in order. Every record it writes comes
\* with `valid = False`, and valid is cleared nowhere else.
CMIP_validate_field_log(test_field) ==
    LET cmip_synonyms == IF "CMIP6" \in DOMAIN test_field.synonyms
                         THEN test_field.synonyms["CMIP6"] ELSE << >>
        cf_present == "CF" \in DOMAIN test_field.synonyms
        cf_synonyms == IF cf_present THEN test_field.synonyms["CF"] ELSE << >>
        Log(level, message, code) ==
            <<[level |-> level, message |-> message, code |-> code,
               field |-> test_field.unique_id]>>
        ForCode(cmip_value) ==
            IF cmip_value \in DOMAIN CmipSource
            THEN LET dictionary_cmip == CmipSource[cmip_value]
                 IN (IF test_field.units /= dictionary_cmip.units
                     THEN Log("warning", "Unit does not match", cmip_value)
                     ELSE << >>)
                    \o (IF cf_synonyms /= << >>
                           /\ dictionary_cmip.cf_id \notin Range(cf_synonyms)
                        THEN Log("error", "different CF code", cmip_value)
                        ELSE << >>)
            ELSE Log("exception", "CMIP6 code is not recognised", cmip_value)
    IN (IF cmip_synonyms = << >>
        THEN Log("exception", "has no CMIP record", "")
        ELSE << >>)
       \o Flatten([i \in DOMAIN cmip_synonyms |-> ForCode(cmip_synonyms[i])])

\* The fields of the calls.
CmFields ==
    {[unique_id |-> "s1__a", units |-> units,
      synonyms |-> [k \in keys |-> IF k = "CF" THEN cf ELSE cmip]] :
        units \in {"K", "m"},
        keys \in SUBSET {"CF", "CMIP6"},
        cf \in {<< >>, <<"air_temperature">>, <<"precipitation_flux">>,
                <<"air_temperature", "precipitation_flux">>},
        cmip \in {<< >>, <<"tas">>, <<"zzz">>, <<"tas", "pr">>,
                  <<"tas", "zzz">>}}

InitCmip ==
    /\ OthersIdle("cmip")
    /\ cm_field \in CmFields
    /\ cm_pc = "call"
    /\ cm_valid = TRUE
    /\ cm_log = << >>

\* CMIP.validate_field(field)
CmipValidateField ==
    /\ cm_pc = "call"
    /\ cm_log' = CMIP_validate_field_log(cm_field)
    /\ cm_valid' = (CMIP_validate_field_log(cm_field) = << >>)
    /\ cm_pc' = "returned"
    /\ UNCHANGED cm_field
    /\ UNCHANGED otherThanCmip

NextCmip == CmipValidateField

SpecCmip == InitCmip /\ [][NextCmip]_vars

\* The CMIP6 codes and the CF codes the field declares.
CmCodes ==
    IF "CMIP6" \in DOMAIN cm_field.synonyms
    THEN Range(cm_field.synonyms["CMIP6"]) ELSE {}

CmCfCodes ==
    IF "CF" \in DOMAIN cm_field.synonyms
    THEN Range(cm_field.synonyms["CF"]) ELSE {}

\* One of the three mismatches the validator looks for in the codes.
CmMismatch ==
    \/ \E c \in CmCodes : c \notin DOMAIN CmipSource
    \/ \E c \in CmCodes \cap DOMAIN CmipSource :
          cm_field.units /= CmipSource[c].units
    \/ /\ CmCfCodes /= {}
       /\ \E c \in CmCodes \cap DOMAIN CmipSource :
             CmipSource[c].cf_id \notin CmCfCodes

\* C23 as stated: the validator returns invalid, with a record in the log,
\* exactly when a CMIP6 code of the field is unknown, the units differ from
\* those of a code, or the field has CF codes and the CF code of a CMIP6
\* code is not among them.
C23_InvalidIffMismatch ==
    (cm_pc = "returned") =>
        /\ cm_valid <=> ~CmMismatch
        /\ ~cm_valid => cm_log /= << >>

\* C23: the validator returns invalid, with a record in the log, exactly
\* when the field has no CMIP6 code at all, or a CMIP6 code of the field is
\* unknown, or the units differ from those of a code, or the field has CF
\* codes and the CF code of a CMIP6 code is not among them.
C23_InvalidIffMismatchOrNoCode ==
    (cm_pc = "returned") =>
        /\ cm_valid <=> ~(CmCodes = {} \/ CmMismatch)
        /\ ~cm_valid => cm_log /= << >>

\* A field that has the CMIP6 key with no code under it was found invalid.
C23_Witness ==
    /\ cm_pc = "returned"
    /\ "CMIP6" \in DOMAIN cm_field.synonyms
    /\ CmCodes = {}
    /\ ~cm_valid


\* The vertical_dimension_for_group block after the name of its group.
VertDimWidgetBlock ==
    "=vertical_dimension_for_group]\ntitle=Vertical dimension used by this group\ndescription=If you have edited the vertical dimensions please restart the GUI\n            to pick up the changes to the rose-app.conf file\nwidget[rose-config-edit]=vertical_dimension_choice.VertDimWidget\nsort-key=02\ncompulsory=true\n"

\* The [section, group] pairs of the document, by their names.
RoseGroups ==
    LET sections == Values(Get(rose_meta_data, "sections"))
    IN UNION {{<<Get(sections[i], "name").s[1], Get(g, "name").s[1]>> :
                  g \in Range(Values(Get(sections[i], "groups")))} :
                i \in DOMAIN sections}

\* The places of the text where the widget block of the group starts.
WidgetBlocks(text, sg) ==
    {i \in 1..(Len(text) - 4) :
        /\ text[i] = "\n[field_config:"
        /\ text[i + 1] = sg[1]
        /\ text[i + 2] = ":"
        /\ text[i + 3] = sg[2]
        /\ text[i + 4] = VertDimWidgetBlock}

MaxDims == 2

\* The dimension needs a block: it has neither definition.
NeedsBlock(dimension) ==
    /\ ~(HasKey(dimension, "label_definition")
         /\ Get(dimension, "label_definition") /= PyNone)
    /\ ~(HasKey(dimension, "axis_definition")
         /\ Get(dimension, "axis_definition") /= PyNone)

\* The key whose lookup fails while the block of the dimension is written,
\* "none" if none does: dimension["type"] comes before dimension["help"].
MissingKey(dimension) ==
    IF ~NeedsBlock(dimension) THEN "none"
    ELSE IF ~HasKey(dimension, "type") THEN "type"
    ELSE IF ~HasKey(dimension, "help") THEN "help"
    ELSE "none"

\* The call on the registry: the KeyError of the first dimension with a
\* missing key, or the text.
add_non_spatial_dims_meta_call(non_spatial_dims_meta, rose_meta) ==
    LET dimensions == Values(non_spatial_dims_meta)
        failing == {i \in DOMAIN dimensions :
                       MissingKey(dimensions[i]) /= "none"}
    IN IF failing /= {}
       THEN [exc |-> "KeyError",
             key |-> MissingKey(dimensions[CHOOSE i \in failing :
                                              \A j \in failing : i <= j]),
             text |-> << >>]
       ELSE [exc |-> "none", key |-> "none",
             text |-> add_non_spatial_dims_meta(non_spatial_dims_meta,
                                                rose_meta)]

\* The dimensions of the registries: with and without help text, category
\* and literal list, used by one field or by two.
NmDimensions ==
    LET Fields(n) ==
            K("fields",
              PyList([i \in 1..n |->
                        PyTuple(<<PyStr("s1"), PyStr("g1"),
                                  PyStr(FieldIds[i])>>)]))
    IN UNION {
         {PyDict(<<K("name", PyStr("foo bar")),
                   K("type", PyStr("axis_definition")),
                   K("help", PyStr("h")), Fields(n)>>),
          PyDict(<<K("name", PyStr("bar")),
                   K("type", PyStr("label_definition")), Fields(n)>>),
          PyDict(<<K("name", PyStr("baz")),
                   K("type", PyStr("label_definition")),
                   K("label_definition", PyList(<<PyStr("a"), PyStr("b")>>)),
                   K("help", PyStr("h")), Fields(n)>>),
          PyDict(<<K("name", PyStr("qux")), K("help", PyStr("h")),
                   Fields(n)>>)} : n \in 1..2}

\* self.non_spatial_dims: the dimensions under their names.
NmRegistries ==
    {PyDict([i \in DOMAIN dims |-> <<Get(dims[i], "name"), dims[i]>>]) :
        dims \in {d \in UNION {[1..n -> NmDimensions] : n \in 0..MaxDims} :
                    \A i, j \in DOMAIN d :
                        Get(d[i], "name") = Get(d[j], "name") => i = j}}

InitNsdMeta ==
    /\ OthersIdle("nsdmeta")
    /\ nm_dims \in NmRegistries
    /\ nm_pc = "call"
    /\ nm_exc = "none"
    /\ nm_text = << >>

\* rose_meta = add_non_spatial_dims_meta(..., rose_meta), which returns
AddNonSpatialDimsMeta ==
    /\ nm_pc = "call"
    /\ LET out == add_non_spatial_dims_meta_call(nm_dims, << >>)
       IN /\ out.exc = "none"
          /\ nm_text' = out.text
    /\ nm_pc' = "returned"
    /\ UNCHANGED <<nm_dims, nm_exc>>
    /\ UNCHANGED otherThanNsdMeta

\* The same call when a lookup fails.
AddNonSpatialDimsMetaRaises ==
    /\ nm_pc = "call"
    /\ LET out == add_non_spatial_dims_meta_call(nm_dims, << >>)
       IN /\ out.exc /= "none"
          /\ nm_exc' = out.exc
    /\ nm_pc' = "raised"
    /\ UNCHANGED <<nm_dims, nm_text>>
    /\ UNCHANGED otherThanNsdMeta

NextNsdMeta ==
    \/ AddNonSpatialDimsMeta
    \/ AddNonSpatialDimsMetaRaises

SpecNsdMeta == InitNsdMeta /\ [][NextNsdMeta]_vars

\* How many times the piece is in the text.
NmCount(piece) ==
    Cardinality({i \in DOMAIN nm_text : nm_text[i] = piece})

\* The fields that use a dimension without a literal list, each with the
\* dimension it uses.
NmConsumers ==
    LET dimensions == Values(nm_dims)
    IN {<<i, j>> \in (DOMAIN dimensions) \X (1..2) :
           /\ NeedsBlock(dimensions[i])
           /\ j <= Len(Get(dimensions[i], "fields").items)}

\* C25: the call returns a text with one block for each dimension that has
\* neither a label_definition nor an axis_definition, with or without help
\* text, one trigger line and one line of the help section for each field
\* that uses such a dimension, and no block for a dimension with a literal
\* list.
C25_BlockForEveryUndefinedDimension ==
    (nm_pc /= "call") =>
        /\ nm_pc = "returned"
        /\ \A d \in Range(Values(nm_dims)) :
              Cardinality({i \in 1..(Len(nm_text) - 1) :
                             /\ nm_text[i] = "\n[non_spatial_dimensions="
                             /\ nm_text[i + 1] =
                                  LowerUnderscore(Get(d, "name").s[1])})
                = IF NeedsBlock(d) THEN 1 ELSE 0
        /\ NmCount("\n       =field_config:") = Cardinality(NmConsumers)
        /\ NmCount("\n    =    ") = Cardinality(NmConsumers)

\* ---------------------------------------------------------------------------
\* rose_picker: the namelists and members of a metadata configuration
\* (source/rose_picker/entry.py).  A section key is the sequence of its
\* pieces: the words "namelist" and "env", and single characters.
\* ---------------------------------------------------------------------------

MaxSections == 3

\* The code point that decides the comparison of two pieces: that of the
\* piece's first character.
PieceCode(piece) ==
    CASE piece = " " -> 32
      [] piece = "1" -> 49
      [] piece = ":" -> 58
      [] piece = "=" -> 61
      [] piece = "a" -> 97
      [] piece = "b" -> 98
      [] piece = "env" -> 101
      [] piece = "m" -> 109
      [] piece = "namelist" -> 110

\* Python's str comparison x < y: the first differing piece decides, and a
\* proper prefix is smaller.
RECURSIVE StrLess(_, _)
StrLess(x, y) ==
    IF y = << >> THEN FALSE
    ELSE IF x = << >> THEN TRUE
    ELSE IF Head(x) /= Head(y) THEN PieceCode(Head(x)) < PieceCode(Head(y))
    ELSE StrLess(Tail(x), Tail(y))

\* \w+ pieces and \s pieces of the keys.
WordPieces == {"a", "b", "m", "1", "namelist", "env"}
SpacePieces == {" "}

\* _NAMELISTS_REGEX.match(key): white space, "namelist", white space, ":",
\* white space, group 1 = a run of word characters (possibly empty), white
\* space, and optionally "=", white space and group 2 = a run of characters
\* other than white space.  matched is FALSE when match() returns None; a
\* group that did not take part is << >>, which Python tests as false just as
\* it does the empty string.
NAMELISTS_REGEX_match(key) ==
    LET p1 == AfterSkip(key, 1, SpacePieces)
        p2 == AfterSkip(key, p1 + 1, SpacePieces)
        p3 == AfterSkip(key, p2 + 1, SpacePieces)
        p4 == AfterSkip(key, p3, WordPieces \ {"namelist", "env"})
        p5 == AfterSkip(key, p4, SpacePieces)
        p6 == AfterSkip(key, p5 + 1, SpacePieces)
        p7 == AfterSkip(key, p6, WordPieces \cup {":", "="})
        hasMember == p5 <= Len(key) /\ key[p5] = "=" /\ p7 > p6
    IN  IF /\ p1 <= Len(key) /\ key[p1] = "namelist"
           /\ p2 <= Len(key) /\ key[p2] = ":"
        THEN [matched |-> TRUE,
              namelist |-> SubSeq(key, p3, p4 - 1),
              member |-> IF hasMember THEN SubSeq(key, p6, p7 - 1) ELSE << >>]
        ELSE [matched |-> FALSE, namelist |-> << >>, member |-> << >>]

\* _list_configuration: the keys that match, sorted.
list_configuration(config) ==
    LET matching == {config[i] : i \in {j \in 1..Len(config) :
                                         NAMELISTS_REGEX_match(config[j]).matched}}
    IN  CHOOSE q \in SetOrders(matching) :
            \A i, j \in 1..Len(q) : i < j => StrLess(q[i], q[j])

\* namelist in namelist_config.keys()
InNamelistConfig(namelist_config, namelist) ==
    \E i \in 1..Len(namelist_config) : namelist_config[i].namelist = namelist

\* elif namelist not in namelist_config.keys()
namelist_not_in_config(namelist_config, namelist) ==
    ~ InNamelistConfig(namelist_config, namelist)

\* namelist_config[namelist] = {}; namelist_config[namelist]['members'] = {}:
\* a new namelist goes last, one already there keeps its place and loses its
\* members.
SetNamelist(namelist_config, namelist) ==
    IF InNamelistConfig(namelist_config, namelist)
    THEN [i \in 1..Len(namelist_config) |->
            IF namelist_config[i].namelist = namelist
            THEN [namelist |-> namelist, members |-> << >>]
            ELSE namelist_config[i]]
    ELSE Append(namelist_config, [namelist |-> namelist, members |-> << >>])

\* namelist_config[namelist]['members'][member] = {}
SetMember(namelist_config, namelist, member) ==
    [i \in 1..Len(namelist_config) |->
        IF namelist_config[i].namelist = namelist
        THEN [namelist_config[i] EXCEPT
                !.members = AppendIfAbsent(namelist_config[i].members, member)]
        ELSE namelist_config[i]]

\* The section keys a configuration is written with: two namelists and a
\* member of each, a namelist whose name continues another's, a member
\* section written with a blank after the colon, a section that names no
\* namelist, and a section that is no namelist.
PickerKeys ==
    {<<"namelist", ":", "a">>,
     <<"namelist", ":", "a", "=", "m">>,
     <<"namelist", ":", "b">>,
     <<"namelist", ":", "b", "=", "m">>,
     <<"namelist", ":", "a", "1">>,
     <<"namelist", ":", " ", "a", "=", "m">>,
     <<"namelist", ":">>,
     <<"env">>}

\* The configurations: up to MaxSections different sections in any order.
PickerConfigs ==
    UNION {{q \in [1..n -> PickerKeys] :
                \A i, j \in 1..n : i /= j => q[i] /= q[j]} : n \in 0..MaxSections}

InitPicker ==
    /\ OthersIdle("picker")
    /\ rp_config \in PickerConfigs
    /\ rp_keys = << >>
    /\ rp_i = 0
    /\ rp_listnames = << >>
    /\ rp_namelist_config = << >>
    /\ rp_pc = "idle"
    /\ rp_exc = << >>

\* node_keys = _list_configuration(config_node)
ListConfiguration ==
    /\ rp_pc = "idle"
    /\ rp_keys' = list_configuration(rp_config)
    /\ rp_pc' = "loop"
    /\ UNCHANGED <<rp_config, rp_i, rp_listnames, rp_namelist_config, rp_exc>>
    /\ UNCHANGED otherThanPicker

\* One pass of the loop for a key without a namelist name: nothing is done.
SkipKey ==
    /\ rp_pc = "loop"
    /\ rp_i < Len(rp_keys)
    /\ NAMELISTS_REGEX_match(rp_keys[rp_i + 1]).namelist = << >>
    /\ rp_i' = rp_i + 1
    /\ UNCHANGED <<rp_config, rp_keys, rp_listnames, rp_namelist_config,
                   rp_pc, rp_exc>>
    /\ UNCHANGED otherThanPicker

\* One pass of the loop for a namelist section (the sections of the model
\* carry none of the namelist_keys properties).
ExtractNamelist ==
    /\ rp_pc = "loop"
    /\ rp_i < Len(rp_keys)
    /\ LET match == NAMELISTS_REGEX_match(rp_keys[rp_i + 1])
       IN  /\ match.namelist /= << >>
           /\ match.member = << >>
           /\ rp_listnames' = Append(rp_listnames, match.namelist)
           /\ rp_namelist_config' = SetNamelist(rp_namelist_config, match.namelist)
    /\ rp_i' = rp_i + 1
    /\ UNCHANGED <<rp_config, rp_keys, rp_pc, rp_exc>>
    /\ UNCHANGED otherThanPicker

\* One pass of the loop for a member section whose namelist is not in
\* namelist_config: RosePickerException.
MemberWithoutNamelist ==
    /\ rp_pc = "loop"
    /\ rp_i < Len(rp_keys)
    /\ LET match == NAMELISTS_REGEX_match(rp_keys[rp_i + 1])
       IN  /\ match.namelist /= << >>
           /\ match.member /= << >>
           /\ namelist_not_in_config(rp_namelist_config, match.namelist)
           /\ rp_exc' = <<"namelist:", match.namelist,
                          " has no section in metadata configuration file">>
    /\ rp_pc' = "raised"
    /\ UNCHANGED <<rp_config, rp_keys, rp_i, rp_listnames, rp_namelist_config>>
    /\ UNCHANGED otherThanPicker

\* One pass of the loop for a member section of a namelist already in
\* namelist_config.
ExtractMember ==
    /\ rp_pc = "loop"
    /\ rp_i < Len(rp_keys)
    /\ LET match == NAMELISTS_REGEX_match(rp_keys[rp_i + 1])
       IN  /\ match.namelist /= << >>
           /\ match.member /= << >>
           /\ ~ namelist_not_in_config(rp_namelist_config, match.namelist)
           /\ rp_namelist_config'
                = SetMember(rp_namelist_config, match.namelist, match.member)
    /\ rp_i' = rp_i + 1
    /\ UNCHANGED <<rp_config, rp_keys, rp_listnames, rp_pc, rp_exc>>
    /\ UNCHANGED otherThanPicker

\* The loop is over: _extract_namelists returns.
ExtractNamelistsReturn ==
    /\ rp_pc = "loop"
    /\ rp_i = Len(rp_keys)
    /\ rp_pc' = "done"
    /\ UNCHANGED <<rp_config, rp_keys, rp_i, rp_listnames, rp_namelist_config,
                   rp_exc>>
    /\ UNCHANGED otherThanPicker

NextPicker ==
    \/ ListConfiguration
    \/ SkipKey
    \/ ExtractNamelist
    \/ MemberWithoutNamelist
    \/ ExtractMember
    \/ ExtractNamelistsReturn

SpecPicker == InitPicker /\ [][NextPicker]_vars

\* The member sections of the configuration, as [namelist, member].
RpMemberSections ==
    {m \in {NAMELISTS_REGEX_match(rp_config[i]) : i \in 1..Len(rp_config)} :
        m.matched /\ m.namelist /= << >> /\ m.member /= << >>}

\* The configuration contains a section for the namelist.
RpHasSection(namelist) ==
    \E i \in 1..Len(rp_config) :
        LET m == NAMELISTS_REGEX_match(rp_config[i])
        IN  m.matched /\ m.namelist = namelist /\ m.member = << >>

\* The member is stored under its namelist.
RpAccepted(m) ==
    \E i \in 1..Len(rp_namelist_config) :
        /\ rp_namelist_config[i].namelist = m.namelist
        /\ m.member \in Range(rp_namelist_config[i].members)

MaxVertDims == 2
MaxGroupFields == 2

\* ConfigFiles.VERT_DIM_REGEX.search(metadata["id"]): "field_config:", a
\* section, ":", a group, "=vertical_dimension_for_group" from the start of
\* the id.
VERT_DIM_REGEX_search(id) ==
    /\ Len(id) >= 7
    /\ id[1] = "field_config" /\ id[2] = ":" /\ id[4] = ":" /\ id[6] = "="
    /\ id[7] = "vertical_dimension_for_group"

\* get_required_standard_levels, the loop over the fields of the group: the
\* top_arg and bottom_arg of every field that has a vertical_dimension.
standard_levels_of(fields_meta) ==
    UNION {{Get(Get(fields_meta[i], "vertical_dimension"), arg).s[1] :
              arg \in {a \in {"top_arg", "bottom_arg"} :
                         HasKey(Get(fields_meta[i], "vertical_dimension"), a)}} :
           i \in {j \in 1..Len(fields_meta) :
                    HasKey(fields_meta[j], "vertical_dimension")}}

\* A dimension counted valid as soon as it has one of the required levels.
dimension_valid_AnyLevel(required_levels, standard_levels) ==
    required_levels = {} \/ \E r \in required_levels : r \in Range(standard_levels)

\* dimension_valid after the loop over required_levels: no required level is
\* missing from standard_levels.
dimension_valid(required_levels, standard_levels) ==
    \A required_level \in required_levels : required_level \in Range(standard_levels)

\* The inner loop of find_valid_dimensions over definition.items(): the id
\* and the name are appended for every valid entry.
RECURSIVE AppendValid(_, _, _, _)
AppendValid(lists, id, definition, required_levels) ==
    IF definition = << >> THEN lists
    ELSE LET item == Head(definition)
             next == IF dimension_valid(required_levels, item.standard_levels)
                     THEN [ids |-> Append(lists.ids, id),
                           names |-> Append(lists.names, item.name)]
                     ELSE lists
         IN  AppendValid(next, id, Tail(definition), required_levels)

\* The ids of the dimension sections of the rose-app.conf.
VwIds == <<"1", "3", "5", "7">>

\* What add_user_defined_vertical_dimensions leaves for a dimension: its name
\* with its standard levels, or the empty dictionary of a section that no
\* blank line closed.
VwDefinitions(id) ==
    {<< >>} \cup
    {<<[name |-> "test_vertical_dimension_" \o id, standard_levels |-> levels]>> :
        levels \in {<< >>,
                    <<"BOTTOM_ATMOSPHERIC_LEVEL">>,
                    <<"BOTTOM_ATMOSPHERIC_LEVEL", "TOP_ATMOSPHERIC_LEVEL">>,
                    <<"BOTTOM_ATMOSPHERIC_LEVEL", "TOP_WET_LEVEL">>}}

\* The dictionaries of dimensions: up to MaxVertDims ids, iterated in any
\* order.
VwDimensions ==
    UNION {{q \in [1..n -> UNION {{[id |-> VwIds[k], definition |-> d] :
                                      d \in VwDefinitions(VwIds[k])} :
                                  k \in 1..MaxVertDims}] :
                \A i, j \in 1..n : i /= j => q[i].id /= q[j].id} :
           n \in 0..MaxVertDims}

\* The fields of a group as the JSON file has them: without a vertical
\* dimension, with one that has no standard levels, and with one between
\* two standard levels.
VwFieldMeta ==
    {PyDict(<<K("units", PyStr("units_1"))>>),
     PyDict(<<K("units", PyStr("units_1")),
              K("vertical_dimension",
                PyDict(<<K("standard_name", PyStr("height"))>>))>>),
     PyDict(<<K("units", PyStr("units_2")),
              K("vertical_dimension",
                PyDict(<<K("top_arg", PyStr("TOP_ATMOSPHERIC_LEVEL")),
                         K("bottom_arg", PyStr("BOTTOM_ATMOSPHERIC_LEVEL"))>>))>>),
     PyDict(<<K("units", PyStr("units_3")),
              K("vertical_dimension",
                PyDict(<<K("top_arg", PyStr("TOP_WET_LEVEL")),
                         K("bottom_arg", PyStr("BOTTOM_ATMOSPHERIC_LEVEL"))>>))>>)}

VwGroups == UNION {[1..n -> VwFieldMeta] : n \in 0..MaxGroupFields}

\* The ids of the settings a widget is given: the vertical dimension of a
\* group, and the switch of a field.
VwMetadataIds ==
    {<<"field_config", ":", "section_name", ":", "field_group_1", "=",
       "vertical_dimension_for_group">>,
     <<"field_config", ":", "section_name", ":", "field_group_1", "=",
       "section_name__field_1">>}

InitWidget ==
    /\ OthersIdle("widget")
    /\ vw_dims \in VwDimensions
    /\ vw_fields \in VwGroups
    /\ vw_metadata_id \in VwMetadataIds
    /\ vw_required = {}
    /\ vw_k = 0
    /\ vw_ids = << >>
    /\ vw_names = << >>
    /\ vw_pc = "idle"

\* required_levels = self.get_required_standard_levels(), the id found.
GetRequiredStandardLevels ==
    /\ vw_pc = "idle"
    /\ VERT_DIM_REGEX_search(vw_metadata_id)
    /\ vw_required' = standard_levels_of(vw_fields)
    /\ vw_pc' = "loop"
    /\ UNCHANGED <<vw_dims, vw_fields, vw_metadata_id, vw_k, vw_ids, vw_names>>
    /\ UNCHANGED otherThanWidget

\* get_required_standard_levels raises: the id is not that of a group's
\* vertical dimension.
GetRequiredStandardLevelsRaises ==
    /\ vw_pc = "idle"
    /\ ~ VERT_DIM_REGEX_search(vw_metadata_id)
    /\ vw_pc' = "raised"
    /\ UNCHANGED <<vw_dims, vw_fields, vw_metadata_id, vw_required, vw_k,
                   vw_ids, vw_names>>
    /\ UNCHANGED otherThanWidget

\* One pass of the loop over self.vertical_dimensions.items().
CheckDimension ==
    /\ vw_pc = "loop"
    /\ vw_k < Len(vw_dims)
    /\ LET dim == vw_dims[vw_k + 1]
           lists == AppendValid([ids |-> vw_ids, names |-> vw_names],
                                dim.id, dim.definition, vw_required)
       IN  /\ vw_ids' = lists.ids
           /\ vw_names' = lists.names
    /\ vw_k' = vw_k + 1
    /\ UNCHANGED <<vw_dims, vw_fields, vw_metadata_id, vw_required, vw_pc>>
    /\ UNCHANGED otherThanWidget

\* After the loop: the placeholder when no id was found, and the return.
FindValidDimensionsReturn ==
    /\ vw_pc = "loop"
    /\ vw_k = Len(vw_dims)
    /\ IF vw_ids = << >>
       THEN /\ vw_ids' = <<"">>
            /\ vw_names' = <<"No valid vertical dimension found">>
       ELSE UNCHANGED <<vw_ids, vw_names>>
    /\ vw_pc' = "returned"
    /\ UNCHANGED <<vw_dims, vw_fields, vw_metadata_id, vw_required, vw_k>>
    /\ UNCHANGED otherThanWidget

NextWidget ==
    \/ GetRequiredStandardLevels
    \/ GetRequiredStandardLevelsRaises
    \/ CheckDimension
    \/ FindValidDimensionsReturn

SpecWidget == InitWidget /\ [][NextWidget]_vars

\* The levels the group requires: the top_arg or bottom_arg of any field.
VwRequired ==
    {level \in {"TOP_ATMOSPHERIC_LEVEL", "BOTTOM_ATMOSPHERIC_LEVEL",
                "TOP_WET_LEVEL"} :
        \E i \in 1..Len(vw_fields), arg \in {"top_arg", "bottom_arg"} :
            /\ HasKey(vw_fields[i], "vertical_dimension")
            /\ HasKey(Get(vw_fields[i], "vertical_dimension"), arg)
            /\ Get(Get(vw_fields[i], "vertical_dimension"), arg) = PyStr(level)}

\* The dimensions whose list of standard levels has every required level.
VwQualifying ==
    {i \in 1..Len(vw_dims) :
        \E k \in 1..Len(vw_dims[i].definition) :
            VwRequired \subseteq Range(vw_dims[i].definition[k].standard_levels)}

\* C27: the id and name lists have the same length throughout; and in what
\* find_valid_dimensions returns, a dimension is offered, under its own name,
\* exactly when its standard levels contain every level the group requires,
\* and when no dimension qualifies the ids are [""] and the names are
\* ["No valid vertical dimension found"].
C27_OfferedIffAllRequiredLevels ==
    /\ Len(vw_ids) = Len(vw_names)
    /\ vw_pc = "returned" =>
        IF VwQualifying = {}
        THEN /\ vw_ids = <<"">>
             /\ vw_names = <<"No valid vertical dimension found">>
        ELSE /\ \A i \in 1..Len(vw_dims) :
                    vw_dims[i].id \in Range(vw_ids) <=> i \in VwQualifying
             /\ \A k \in 1..Len(vw_ids) :
                    \E i \in VwQualifying :
                        /\ vw_dims[i].id = vw_ids[k]
                        /\ vw_dims[i].definition[1].name = vw_names[k]

\* A widget was built for a group that requires levels, with one dimension
\* offered and another one left out.
C27_Witness ==
    /\ vw_pc = "returned"
    /\ VwRequired /= {}
    /\ VwQualifying /= {}
    /\ Len(vw_ids) < Len(vw_dims)
    /\ \E i \in 1..Len(vw_dims) :
          /\ vw_dims[i].definition /= << >>
          /\ vw_dims[i].definition[1].standard_levels /= << >>
          /\ i \notin VwQualifying

\* ---------------------------------------------------------------------------
\* The search for the root directory of the source tree
\* (meta_data_utils/diag_meta_gen.py).  A directory on the path from the file
\* system root to the working directory is its depth: 0 is "/", and
\* gp_tree[depth + 1] is the set of sub-directories it has.
\* ---------------------------------------------------------------------------

MaxDepth == 21

max_count == 20

\* current_dir.parent: one level up, and "/" is its own parent.
parent(current_dir) == IF current_dir = 0 THEN 0 ELSE current_dir - 1

\* has_dirs as soon as one named directory is there.
has_dirs_AnyDirectory(tree, current_dir, directories_in_root) ==
    \E i \in 1..Len(directories_in_root) :
        directories_in_root[i] \in tree[current_dir + 1]

\* has_dirs after the loop over directories_in_root: (current_dir /
\* directory).is_dir() for every one of them.
has_dirs(tree, current_dir, directories_in_root) ==
    \A i \in 1..Len(directories_in_root) :
        directories_in_root[i] \in tree[current_dir + 1]

\* The paths from "/" to a working directory up to MaxDepth deep, with
\* meta_data_utils in at most one directory of the path, and rose_picker
\* beside it, in the working directory, or nowhere.
GpTrees ==
    {[level \in 1..(depth + 1) |->
        (IF level = a THEN {"meta_data_utils"} ELSE {})
            \cup (IF level = b THEN {"rose_picker"} ELSE {})] :
     <<depth, a, b>> \in {t \in (0..MaxDepth) \X (0..(MaxDepth + 1))
                                              \X (0..(MaxDepth + 1)) :
                             /\ t[2] <= t[1] + 1
                             /\ t[3] \in {0, t[2], t[1] + 1}}}

\* The lists of directories asked for.
GpDirectories ==
    {<< >>, <<"meta_data_utils">>, <<"meta_data_utils", "rose_picker">>}

InitGpl ==
    /\ OthersIdle("gpl")
    /\ gp_tree \in GpTrees
    /\ gp_dirs \in GpDirectories
    /\ gp_current = 0
    /\ gp_counter = 0
    /\ gp_pc = "idle"

\* current_dir = Path(".").resolve(); counter = 0
ResolveCurrentDir ==
    /\ gp_pc = "idle"
    /\ gp_current' = Len(gp_tree) - 1
    /\ gp_counter' = 0
    /\ gp_pc' = "loop"
    /\ UNCHANGED <<gp_tree, gp_dirs>>
    /\ UNCHANGED otherThanGpl

\* A pass of the loop in a directory that has every named directory: the
\* loop ends and current_dir is returned.
FoundRoot ==
    /\ gp_pc = "loop"
    /\ has_dirs(gp_tree, gp_current, gp_dirs)
    /\ gp_pc' = "returned"
    /\ UNCHANGED <<gp_tree, gp_dirs, gp_current, gp_counter>>
    /\ UNCHANGED otherThanGpl

\* A pass of the loop in a directory that lacks one: up to the parent, and
\* the counter has not reached max_count.
ClimbToParent ==
    /\ gp_pc = "loop"
    /\ ~ has_dirs(gp_tree, gp_current, gp_dirs)
    /\ gp_counter + 1 /= max_count
    /\ gp_current' = parent(gp_current)
    /\ gp_counter' = gp_counter + 1
    /\ UNCHANGED <<gp_tree, gp_dirs, gp_pc>>
    /\ UNCHANGED otherThanGpl

\* A pass of the loop in a directory that lacks one: up to the parent, the
\* counter reaches max_count and IOError is raised.
ClimbAndRaise ==
    /\ gp_pc = "loop"
    /\ ~ has_dirs(gp_tree, gp_current, gp_dirs)
    /\ gp_counter + 1 = max_count
    /\ gp_current' = parent(gp_current)
    /\ gp_counter' = gp_counter + 1
    /\ gp_pc' = "raised"
    /\ UNCHANGED <<gp_tree, gp_dirs>>
    /\ UNCHANGED otherThanGpl

NextGpl ==
    \/ ResolveCurrentDir
    \/ FoundRoot
    \/ ClimbToParent
    \/ ClimbAndRaise

SpecGpl == InitGpl /\ [][NextGpl]_vars

\* The interpreter keeps running the loop: a pass that can be made is made.
LiveGpl == SpecGpl /\ WF_vars(NextGpl)

\* The directory that is n levels above the working directory.
GpAncestor(n) == IF n >= Len(gp_tree) - 1 THEN 0 ELSE Len(gp_tree) - 1 - n

\* Every named directory is a sub-directory of the directory at this depth.
GpContainsAll(current_dir) ==
    \A i \in 1..Len(gp_dirs) : gp_dirs[i] \in gp_tree[current_dir + 1]

\* How the search has ended, if it has: with a directory that contains every
\* named sub-directory, or with IOError after 20 climbs to a parent, none of
\* the directories climbed from containing them all.
GpEndedRight ==
    /\ gp_pc = "returned" => GpContainsAll(gp_current) /\ gp_counter < 20
    /\ gp_pc = "raised" =>
          /\ gp_counter = 20
          /\ gp_current = GpAncestor(20)
          /\ \A n \in 0..19 : ~ GpContainsAll(GpAncestor(n))

\* C28: get_gpl_utilities_root_dir always terminates, returning a directory
\* that contains every one of the named sub-directories or raising IOError
\* after climbing 20 parent directories without finding one.
C28_TerminatesWithRootOrIOError ==
    /\ [] GpEndedRight
    /\ <> (gp_pc \in {"returned", "raised"})

\* The search has ended in a directory above the working directory.
C28_Witness ==
    /\ gp_pc = "returned"
    /\ gp_dirs /= << >>
    /\ gp_counter > 0
    /\ gp_current = GpAncestor(gp_counter)

\* The search has ended in IOError below a directory that has them all.
C28_WitnessRaised ==
    /\ gp_pc = "raised"
    /\ GpContainsAll(0)

\* ---------------------------------------------------------------------------
\* The registry of find_nsd as a whole (fortran_reader.py, find_nsd).
\* ---------------------------------------------------------------------------

\* C29: whatever find_nsd calls have been made on a registry that started
\* empty, returned or raised or still in their loop, every entry is stored
\* under the name of its definition, and its fields are one or more
\* (section, group, field_id) triples of which no two are the same.
C29_RegistryInvariant ==
    \A i \in DOMAIN non_spatial_dims :
        LET entry == non_spatial_dims[i]
        IN  /\ entry.key = entry.value.name
            /\ Len(entry.value.fields) >= 1
            /\ \A j, k \in DOMAIN entry.value.fields :
                  j /= k => entry.value.fields[j] /= entry.value.fields[k]

\* C29 witness: a call has just raised on a registry of two dimensions, one
\* of which three fields have registered over earlier calls.
C29_Witness ==
    /\ nsd_pc = "raised"
    /\ Len(non_spatial_dims) = 2
    /\ \E i \in DOMAIN non_spatial_dims :
          Len(non_spatial_dims[i].value.fields) = 3

\* ---------------------------------------------------------------------------
\* The two validity accounts of read_fortran_files (fortran_reader.py,
\* read_fortran_files): the flag it returns and the closing message.
\* ---------------------------------------------------------------------------

\* C30: when read_fortran_files of a freshly constructed reader has
\* returned, the flag it returned is True exactly when the count of valid
\* files equals the number of files found, that is exactly when it reported
\* "All files are valid".
C30_ValidityAccountsAgree ==
    ReadReturned =>
        /\ valid_meta_data <=> valid_files = Len(meta_mod_files)
        /\ valid_meta_data <=> report = "All files are valid"

\* C30 witness: read_fortran_files has returned False for two or more files
\* that the front end could not parse, and reported invalid files.
C30_Witness ==
    /\ ReadReturned
    /\ Len(meta_mod_files) >= 2
    /\ failures = {"parse"}
    /\ ~valid_meta_data
    /\ report = "files are invalid"

\* read_fortran_files has returned True and reported that all files are
\* valid.
C30_WitnessAllValid ==
    /\ ReadReturned
    /\ valid_meta_data
    /\ report = "All files are valid"

====
